---- MODULE Spec2Model ----
(***************************************************************************)
(* Database connectivity and configuration lifecycle of DataMaster-MCP:    *)
(* ConfigManager (registry + load/save), DatabaseManager (test_connection, *)
(* get_connection, execute_query) and the connect-with-inline-credentials  *)
(* tools that create temporary configs.                                    *)
(*                                                                         *)
(* Python values are modelled as strings ("True", "False", "None" for the  *)
(* three singletons), dicts as functions whose DOMAIN is the key set, and  *)
(* character strings that the code scans (queries, keywords, templated     *)
(* values) as sequences of one-character strings.                          *)
(***************************************************************************)
EXTENDS Integers, Sequences, FiniteSets, TLC

VARIABLES
    databases,      \* config_data["databases"]: name -> config dict
    security,       \* config_data["security"] section, or NoSection
    disk,           \* the config file of ConfigManager on disk
    MYSQL_DRIVERS,  \* module-level driver table of database_manager
    connections,    \* DatabaseManager.connections
    files,          \* SQLite database files that exist
    leaked,         \* backend connections opened and never closed
    clock,          \* datetime.now() truncated to the second
    held,           \* the config dict the caller holds (and its identity)
    crashed,        \* the process died in the middle of a handler
    result,         \* what the last call did and returned
    env,            \* os.environ and a document _resolve_environment_variables works on
    local,          \* the local SQLite database of the execute_sql tool (DB_PATH)
    handles,        \* the connections get_connection has asked a backend for
    api,            \* APIConfigManager: its registry, its config file and the .json.bak
    writers         \* threads inside add_database_config / remove_database_config

vars == <<databases, security, disk, MYSQL_DRIVERS, connections, files,
          leaked, clock, held, crashed, result, env, local, handles, api, writers>>

-----------------------------------------------------------------------------
(* Bounds *)

MaxClock == 1
MaxConfigs == 2
MaxLeaked == 1
MaxQueryWords == 2
MaxPieces == 2
MaxRows == 2
MaxHandles == 2
MaxLimit == 1

-----------------------------------------------------------------------------
(* Python values *)

PyTrue == "True"
PyFalse == "False"
PyNone == "None"

\* bool(v) for the values the model uses
Truthy(v) == v \notin {PyFalse, PyNone, ""}

\* dict.get(k, default)
DictGet(d, k, default) == IF k \in DOMAIN d THEN d[k] ELSE default

\* d with d[k] = v (item assignment)
DictSet(d, k, v) == [x \in DOMAIN d \cup {k} |-> IF x = k THEN v ELSE d[x]]

\* d without key k (del d[k])
DictDel(d, k) == [x \in DOMAIN d \ {k} |-> d[x]]

EmptyDict == [x \in {} |-> PyNone]

-----------------------------------------------------------------------------
(* Character strings *)

LowerCase == <<"a","b","c","d","e","f","g","h","i","j","k","l","m",
               "n","o","p","q","r","s","t","u","v","w","x","y","z">>
UpperCase == <<"A","B","C","D","E","F","G","H","I","J","K","L","M",
               "N","O","P","Q","R","S","T","U","V","W","X","Y","Z">>

\* str.upper() on one character
UpperChar(c) ==
    IF \E i \in 1..26 : LowerCase[i] = c
    THEN UpperCase[CHOOSE i \in 1..26 : LowerCase[i] = c]
    ELSE c

\* str.upper()
StrUpper(s) == [i \in 1..Len(s) |-> UpperChar(s[i])]

RECURSIVE LStrip(_)
LStrip(s) == IF s # <<>> /\ Head(s) = " " THEN LStrip(Tail(s)) ELSE s

RECURSIVE RStrip(_)
RStrip(s) ==
    IF s # <<>> /\ s[Len(s)] = " " THEN RStrip(SubSeq(s, 1, Len(s) - 1)) ELSE s

\* str.strip()
StrStrip(s) == RStrip(LStrip(s))

\* "sub in s"
StrContains(s, sub) ==
    \E i \in 0..(Len(s) - Len(sub)) : SubSeq(s, i + 1, i + Len(sub)) = sub

\* s.startswith(prefix)
StartsWith(s, prefix) ==
    Len(prefix) <= Len(s) /\ SubSeq(s, 1, Len(prefix)) = prefix

-----------------------------------------------------------------------------
(* Names and sample values *)

\* f"temp_{db_type}_{datetime.now().strftime('%Y%m%d_%H%M%S')}"
TempName(db_type, now) == <<"temp", db_type, now>>

UserNames == {<<"user", "prod", 0>>}
TempTypes == {"mysql", "sqlite"}
TempNames == {TempName(ty, t) : ty \in TempTypes, t \in 0..MaxClock}
Names == UserNames \cup TempNames
NoName == <<"none", "", 0>>

\* datetime.now().isoformat()
IsoFormat(now) == IF now = 0 THEN "t0" ELSE "t1+"

ExistingFile == "f1"
MissingFile == "f0"

CfgMysql ==
    [type |-> "mysql", host |-> "h1", database |-> "d1", username |-> "u1",
     password |-> "pw1"]
CfgMysqlToken ==
    [type |-> "mysql", host |-> "h1", database |-> "d1", user |-> "u1",
     password |-> "pw1", token |-> "tk1", enabled |-> PyTrue,
     description |-> "main"]
CfgMysqlNoPassword ==
    [type |-> "mysql", host |-> "h1", database |-> "d1", username |-> "u1"]
CfgPostgresql ==
    [type |-> "postgresql", host |-> "h1", database |-> "d1",
     username |-> "u1", password |-> "pw1"]
CfgSqlite == [type |-> "sqlite", file_path |-> ExistingFile]
CfgSqliteMissing == [type |-> "sqlite", file_path |-> MissingFile]
CfgDisabled ==
    [type |-> "sqlite", file_path |-> ExistingFile, enabled |-> PyFalse]
CfgNoType == [host |-> "h1", api_key |-> "tk1"]

CfgTemporary ==
    [type |-> "mysql", host |-> "h1", database |-> "d1", username |-> "u1",
     password |-> "pw1", token |-> "tk1", _is_temporary |-> PyTrue,
     _created_at |-> "t0"]

CfgMysqlNoHost ==
    [type |-> "mysql", database |-> "d1", username |-> "u1", password |-> "pw1"]
CfgMysqlNoUser ==
    [type |-> "mysql", host |-> "h1", database |-> "d1", password |-> "pw1"]
CfgPostgresqlEmptyDatabase ==
    [type |-> "postgresql", host |-> "h1", database |-> "", user |-> "u1",
     password |-> "pw1"]
CfgMongodb == [type |-> "mongodb", host |-> "h1", database |-> "d1"]
CfgMongodbNoDatabase == [type |-> "mongodb", host |-> "h1"]
CfgSqliteNoPath == [type |-> "sqlite"]

CfgTemporaryDisabled ==
    [type |-> "mysql", host |-> "h1", database |-> "d1", username |-> "u1",
     password |-> "pw1", enabled |-> PyFalse, _is_temporary |-> PyTrue,
     _created_at |-> "t0"]

SampleConfigs ==
    {CfgMysql, CfgMysqlToken, CfgMysqlNoPassword, CfgPostgresql, CfgSqlite,
     CfgSqliteMissing, CfgDisabled, CfgNoType, CfgMysqlNoHost, CfgMysqlNoUser,
     CfgPostgresqlEmptyDatabase, CfgMongodb, CfgMongodbNoDatabase, CfgSqliteNoPath}

\* the keys and the values that carry credentials in the sample configs
SecretKeys == {"password", "token", "api_key"}
SecretValues == {"pw1", "tk1"}

\* inline credentials handed to connect_data_source
InlineParams ==
    {[host |-> "h1", database |-> "d1", username |-> "u1", password |-> "pw1"]}

DROP == <<"D","R","O","P">>
DELETE == <<"D","E","L","E","T","E">>
UPDATE == <<"U","P","D","A","T","E">>
INSERT == <<"I","N","S","E","R","T">>
ALTER == <<"A","L","T","E","R">>
CREATE == <<"C","R","E","A","T","E">>
TRUNCATE == <<"T","R","U","N","C","A","T","E">>
SELECT == <<"S","E","L","E","C","T">>
PRAGMA == <<"P","R","A","G","M","A">>

DefaultBlockedKeywords ==
    <<DROP, DELETE, UPDATE, INSERT, ALTER, CREATE, TRUNCATE>>

\* the fallback of get_security_config when the section is missing
DefaultSecurity ==
    [allow_write_operations |-> PyFalse, allowed_schemas |-> <<>>,
     blocked_keywords |-> DefaultBlockedKeywords]

NoSection == [present |-> FALSE, section |-> EmptyDict]
Section(d) == [present |-> TRUE, section |-> d]

SecuritySamples ==
    {NoSection,
     Section(EmptyDict),
     Section([allow_write_operations |-> PyFalse,
              blocked_keywords |-> DefaultBlockedKeywords]),
     Section([allow_write_operations |-> PyFalse,
              blocked_keywords |-> <<UPDATE, DROP>>]),
     Section([allow_write_operations |-> PyTrue,
              blocked_keywords |-> DefaultBlockedKeywords])}

-----------------------------------------------------------------------------
(* _resolve_environment_variables *)

\* the end of the match of \$\{([^}]+)\} that starts at i, 0 if none: "${", then
\* the characters up to the next "}", at least one
MatchEnd(s, i) ==
    IF i + 1 <= Len(s) /\ s[i] = "$" /\ s[i + 1] = "{"
    THEN LET closing == {j \in (i + 2)..Len(s) : s[j] = "}"}
         IN IF closing = {} THEN 0
            ELSE LET j == CHOOSE j \in closing : \A k \in closing : j <= k
                 IN IF j = i + 2 THEN 0 ELSE j
    ELSE 0

\* re.findall(pattern, obj): the captured names of the non-overlapping matches
\* found scanning from i, leftmost first
RECURSIVE FindAll(_, _)
FindAll(s, i) ==
    IF i > Len(s) THEN <<>>
    ELSE IF MatchEnd(s, i) = 0 THEN FindAll(s, i + 1)
    ELSE <<SubSeq(s, i + 2, MatchEnd(s, i) - 1)>> \o FindAll(s, MatchEnd(s, i) + 1)

\* s.replace(old, new) for a non-empty old: every non-overlapping occurrence,
\* leftmost first
RECURSIVE StrReplace(_, _, _)
StrReplace(s, old, new) ==
    IF Len(s) < Len(old) THEN s
    ELSE IF SubSeq(s, 1, Len(old)) = old
         THEN new \o StrReplace(SubSeq(s, Len(old) + 1, Len(s)), old, new)
    ELSE <<Head(s)>> \o StrReplace(Tail(s), old, new)

\* os.getenv(var_name, '')
GetEnv(environ, var_name) ==
    IF var_name \in DOMAIN environ THEN environ[var_name] ELSE <<>>

\* the loop over matches: obj.replace(f'${{{var_name}}}', env_value) for each
RECURSIVE ReplaceMatches(_, _, _)
ReplaceMatches(obj, matches, environ) ==
    IF matches = <<>> THEN obj
    ELSE ReplaceMatches(
            StrReplace(obj, <<"$", "{">> \o Head(matches) \o <<"}">>,
                       GetEnv(environ, Head(matches))),
            Tail(matches), environ)

\* replace_env_vars on a string
ReplaceEnvVarsStr(obj, environ) == ReplaceMatches(obj, FindAll(obj, 1), environ)

\* replace_env_vars on a list of strings
replace_env_vars(obj, environ) ==
    [i \in 1..Len(obj) |-> ReplaceEnvVarsStr(obj[i], environ)]

\* the config keys whose values the model spells out character by character;
\* every other value is a string without "$", which replace_env_vars leaves as
\* it is
TemplatedKeys == {"charset"}

\* replace_env_vars on a config dict
ResolveConfig(config, environ) ==
    [k \in DOMAIN config |->
        IF k \in TemplatedKeys THEN ReplaceEnvVarsStr(config[k], environ)
        ELSE config[k]]

\* replace_env_vars on the databases dict
ResolveDatabases(dbs, environ) ==
    [n \in DOMAIN dbs |-> ResolveConfig(dbs[n], environ)]

-----------------------------------------------------------------------------
(* ConfigManager: the file *)

AbsentFile == [state |-> "absent", databases |-> EmptyDict, security |-> NoSection]
TornFile == [state |-> "torn", databases |-> EmptyDict, security |-> NoSection]
ValidFile(dbs, sec) == [state |-> "valid", databases |-> dbs, security |-> sec]

\* a config file that exists and cannot be opened for reading
UnreadableFile == [state |-> "unreadable", databases |-> EmptyDict, security |-> NoSection]

Loaded(raised, dbs, sec) == [raised |-> raised, databases |-> dbs, security |-> sec]

\* the try block of _load_config: an absent file gives the empty store and
\* returns; a valid file is loaded and _resolve_environment_variables replaces
\* config_data by its resolved copy; open() or json.load raise on an unreadable or a malformed file, and
\* config_data is then still the {} of __init__ or the store of the last load
LoadConfigTry(f) ==
    CASE f.state = "valid" ->
             Loaded(FALSE, ResolveDatabases(f.databases, env.environ), f.security)
      [] f.state = "absent" -> Loaded(FALSE, EmptyDict, Section(EmptyDict))
      [] OTHER -> Loaded(TRUE, EmptyDict, NoSection)

\* _load_config without its except clause
LoadConfig_Propagating(f) == LoadConfigTry(f)

\* _load_config: the in-memory config_data after loading file f; except
\* Exception installs the empty store
LoadConfig(f) ==
    IF LoadConfigTry(f).raised
    THEN Loaded(FALSE, EmptyDict, Section(EmptyDict))
    ELSE LoadConfigTry(f)

SaveOutcomes == {"ok", "open_error", "write_error", "crash"}

\* _save_config: the file after a save that ends with outcome o; open(.., 'w')
\* truncates the file before json.dump writes the document
SaveConfig(dbs, sec, f, o) ==
    CASE o = "ok" -> ValidFile(dbs, sec)
      [] o = "open_error" -> f
      [] OTHER -> TornFile

\* _save_config raises
SaveRaises(o) == o \in {"open_error", "write_error"}

-----------------------------------------------------------------------------
(* ConfigManager: reads *)

\* get_security_config
get_security_config(sec) == IF sec.present THEN sec.section ELSE DefaultSecurity

NoConfig == [none |-> PyNone]

\* get_database_config taking an entry without "enabled" as disabled
get_database_config_EnabledRequired(dbs, name) ==
    IF name \notin DOMAIN dbs THEN NoConfig
    ELSE IF ~Truthy(DictGet(dbs[name], "enabled", PyFalse)) THEN NoConfig
    ELSE dbs[name]

\* get_database_config: a copy of the entry, or None
get_database_config(dbs, name) ==
    IF name \notin DOMAIN dbs THEN NoConfig
    ELSE IF ~Truthy(DictGet(dbs[name], "enabled", PyTrue)) THEN NoConfig
    ELSE dbs[name]

\* get_database_config handing out the stored dict itself
ReturnedStored(dbs, name) ==
    [config |-> get_database_config(dbs, name),
     alias |-> IF get_database_config(dbs, name) = NoConfig THEN NoName ELSE name,
     from |-> "get"]

\* the dict get_database_config hands to its caller, with its identity: the
\* entry is copied before it is returned, so it is not the stored object
Returned(dbs, name) ==
    [config |-> get_database_config(dbs, name), alias |-> NoName, from |-> "get"]

\* a summary that copies the entry and strips only the "password" key
SummaryViewStripped(config) == DictDel(config, "password")

\* one entry of list_databases
SummaryView(config) ==
    [type |-> DictGet(config, "type", PyNone),
     description |-> DictGet(config, "description", ""),
     enabled |-> DictGet(config, "enabled", PyTrue),
     host |-> DictGet(config, "host", ""),
     database |-> DictGet(config, "database", ""),
     file_path |-> DictGet(config, "file_path", ""),
     is_temporary |-> DictGet(config, "_is_temporary", PyFalse),
     created_at |-> DictGet(config, "_created_at", PyNone)]

list_databases(dbs) == [n \in DOMAIN dbs |-> SummaryView(dbs[n])]

\* one entry of get_temporary_configs
TempView(config) ==
    [type |-> DictGet(config, "type", PyNone),
     host |-> DictGet(config, "host", PyNone),
     database |-> DictGet(config, "database", PyNone),
     description |-> DictGet(config, "description", ""),
     created_at |-> DictGet(config, "_created_at", PyNone)]

get_temporary_configs(dbs) ==
    [n \in {m \in DOMAIN dbs :
                /\ Truthy(DictGet(dbs[m], "_is_temporary", PyFalse))
                /\ Truthy(DictGet(dbs[m], "enabled", PyTrue))}
        |-> TempView(dbs[n])]

-----------------------------------------------------------------------------
(* ConfigManager: validation *)

Valid == [valid |-> TRUE, error |-> "", detail |-> <<>>]
Invalid(e, d) == [valid |-> FALSE, error |-> e, detail |-> d]

\* required_fields without the password of a SQL server
RequiredFields_PasswordOptional(db_type) ==
    CASE db_type \in {"mysql", "postgresql"} -> <<"host", "database">>
      [] db_type = "mongodb" -> <<"host", "database">>
      [] db_type = "sqlite" -> <<"file_path">>
      [] OTHER -> <<>>

\* required_fields per database type
RequiredFields(db_type) ==
    CASE db_type \in {"mysql", "postgresql"} -> <<"host", "database", "password">>
      [] db_type = "mongodb" -> <<"host", "database">>
      [] db_type = "sqlite" -> <<"file_path">>
      [] OTHER -> <<>>

\* the first required field that config lacks, as a one-element tuple
FirstMissing(config, fields) ==
    LET missing == {i \in 1..Len(fields) : ~Truthy(DictGet(config, fields[i], PyNone))}
    IN IF missing = {} THEN <<>>
       ELSE <<fields[CHOOSE i \in missing : \A j \in missing : i <= j]>>

\* validate_database_config
validate_database_config(dbs, name) ==
    LET config == get_database_config(dbs, name)
        db_type == DictGet(config, "type", PyNone)
    IN IF config = NoConfig \/ DOMAIN config = {}
       THEN Invalid("not_found_or_disabled", <<>>)
       ELSE IF ~Truthy(db_type) THEN Invalid("missing_type", <<>>)
       ELSE IF /\ db_type \in {"mysql", "postgresql"}
               /\ ~Truthy(DictGet(config, "username", PyNone))
               /\ ~Truthy(DictGet(config, "user", PyNone))
            THEN Invalid("missing_field", <<"username">>)
       ELSE IF db_type \notin {"mysql", "postgresql", "mongodb", "sqlite"}
            THEN Invalid("unsupported_type", <<db_type>>)
       ELSE IF FirstMissing(config, RequiredFields(db_type)) # <<>>
            THEN Invalid("missing_field", FirstMissing(config, RequiredFields(db_type)))
       ELSE Valid

-----------------------------------------------------------------------------
(* ConfigManager: writes.  Each returns the registry, the file, the value   *)
(* returned to the caller and whether the process died in the save.        *)

Written(dbs, f, ret, died) ==
    [databases |-> dbs, disk |-> f, ret |-> ret, crashed |-> died]

\* add_database_config: the entry is stored, then saved
add_database_config(dbs, sec, f, name, config, o) ==
    LET stored == DictSet(dbs, name, config)
    IN Written(stored, SaveConfig(stored, sec, f, o), ~SaveRaises(o), o = "crash")

\* remove_database_config deleting the entry only once the save went through
remove_database_config_SaveFirst(dbs, sec, f, name, o) ==
    IF name \in DOMAIN dbs
    THEN LET rest == DictDel(dbs, name)
         IN Written(IF SaveRaises(o) THEN dbs ELSE rest,
                    SaveConfig(rest, sec, f, o), ~SaveRaises(o), o = "crash")
    ELSE Written(dbs, f, FALSE, FALSE)

\* remove_database_config: the entry is deleted, then saved
remove_database_config(dbs, sec, f, name, o) ==
    IF name \in DOMAIN dbs
    THEN LET rest == DictDel(dbs, name)
         IN Written(rest, SaveConfig(rest, sec, f, o), ~SaveRaises(o), o = "crash")
    ELSE Written(dbs, f, FALSE, FALSE)

\* cleanup_temporary_configs collecting what get_temporary_configs lists: the
\* enabled temporary configs
TemporaryNames_EnabledOnly(dbs) ==
    {n \in DOMAIN dbs :
        /\ Truthy(DictGet(dbs[n], "_is_temporary", PyFalse))
        /\ Truthy(DictGet(dbs[n], "enabled", PyTrue))}

\* the names cleanup_temporary_configs collects
TemporaryNames(dbs) ==
    {n \in DOMAIN dbs : Truthy(DictGet(dbs[n], "_is_temporary", PyFalse))}

\* cleanup_temporary_configs: remove_database_config for each collected name, in
\* the given order, with save outcome outs[i] for the i-th
RECURSIVE CleanupLoop(_, _, _, _, _)
CleanupLoop(dbs, sec, f, order, outs) ==
    IF order = <<>> THEN Written(dbs, f, TRUE, FALSE)
    ELSE LET w == remove_database_config(dbs, sec, f, Head(order), Head(outs))
         IN IF w.crashed THEN w
            ELSE CleanupLoop(w.databases, sec, w.disk, Tail(order), Tail(outs))

-----------------------------------------------------------------------------
(* Driver detection *)

\* MYSQL_AVAILABLE
MYSQL_AVAILABLE(drivers) == \E d \in DOMAIN drivers : drivers[d]

NoDriver == "none"

\* the keys of MYSQL_DRIVERS in the order detect_mysql_drivers inserts them
DriverNames == <<"pymysql", "mysql.connector">>

\* str(e) of the ImportError that the import of a driver raised
ImportErrorText(name) == <<"No module named", name>>

\* one line of driver_status per entry of MYSQL_DRIVERS: the name, the mark and
\* info.get('version', info.get('error', ''))
DriverStatus(drivers) ==
    [i \in 1..Len(DriverNames) |->
        [name |-> DriverNames[i],
         available |-> drivers[DriverNames[i]],
         text |-> IF drivers[DriverNames[i]] THEN <<"version">>
                  ELSE ImportErrorText(DriverNames[i])]]

\* get_preferred_mysql_driver trying mysql.connector before pymysql
get_preferred_mysql_driver_ConnectorFirst(drivers) ==
    IF drivers["mysql.connector"] THEN "mysql.connector"
    ELSE IF drivers["pymysql"] THEN "pymysql"
    ELSE NoDriver

\* get_preferred_mysql_driver; NoDriver stands for the ImportError
get_preferred_mysql_driver(drivers) ==
    IF drivers["pymysql"] THEN "pymysql"
    ELSE IF drivers["mysql.connector"] THEN "mysql.connector"
    ELSE NoDriver

-----------------------------------------------------------------------------
(* DatabaseManager.test_connection *)

\* what the backend does to a connect + probe
TestOutcomes == {"ok", "connect_error", "probe_error"}

Tested(ok, e, d, opens, closes) ==
    [success |-> ok, error |-> e, detail |-> d, opens |-> opens, closes |-> closes,
     raised |-> FALSE]

\* an exception leaves the try block of a test: connections opened so far stay
\* open, nothing is returned
RaisedInTest(e, d, opens) == [Tested(FALSE, e, d, opens, 0) EXCEPT !.raised = TRUE]

\* except Exception as e: return False, f"...{str(e)}"
ExceptTested(t) == IF t.raised THEN [t EXCEPT !.raised = FALSE, !.success = FALSE] ELSE t

\* the first key among keys that config lacks (config[key] raises KeyError)
FirstKeyError(config, keys) ==
    LET missing == {i \in 1..Len(keys) : keys[i] \notin DOMAIN config}
    IN IF missing = {} THEN <<>>
       ELSE <<keys[CHOOSE i \in missing : \A j \in missing : i <= j]>>

\* the try block of a test of a SQL server: the connect call evaluates
\* config["host"], config["password"], config["database"], connects, probes,
\* closes
TestServerTry(config, driver, b) ==
    IF FirstKeyError(config, <<"host", "password", "database">>) # <<>>
    THEN RaisedInTest("key_error",
                      FirstKeyError(config, <<"host", "password", "database">>), 0)
    ELSE CASE b = "connect_error" -> RaisedInTest("connect_failed", <<driver>>, 0)
           [] b = "probe_error" -> RaisedInTest("connect_failed", <<driver>>, 1)
           [] OTHER -> Tested(TRUE, "", <<driver>>, 1, 1)

\* _test_mysql_connection
TestMysqlConnection(config, drivers, b) ==
    IF ~MYSQL_AVAILABLE(drivers)
    THEN Tested(FALSE, "driver_unavailable", DriverStatus(drivers), 0, 0)
    ELSE IF /\ ~Truthy(DictGet(config, "username", PyNone))
            /\ ~Truthy(DictGet(config, "user", PyNone))
         THEN Tested(FALSE, "missing_field", <<"username">>, 0, 0)
    ELSE ExceptTested(TestServerTry(config, get_preferred_mysql_driver(drivers), b))

\* _test_postgresql_connection (psycopg2 taken as installed)
TestPostgresqlConnection(config, b) ==
    IF /\ ~Truthy(DictGet(config, "username", PyNone))
       /\ ~Truthy(DictGet(config, "user", PyNone))
    THEN Tested(FALSE, "missing_field", <<"username">>, 0, 0)
    ELSE ExceptTested(TestServerTry(config, "psycopg2", b))

\* _test_sqlite_connection
TestSqliteConnection(config, existing, b) ==
    ExceptTested(
        IF "file_path" \notin DOMAIN config
        THEN RaisedInTest("key_error", <<"file_path">>, 0)
        ELSE IF config["file_path"] \notin existing
             THEN Tested(FALSE, "sqlite_missing", <<config["file_path"]>>, 0, 0)
        ELSE IF b = "connect_error"
             THEN RaisedInTest("connect_failed", <<"sqlite3">>, 0)
             ELSE Tested(TRUE, "", <<"sqlite3">>, 1, 1))

\* _test_mongodb_connection (pymongo taken as installed): MongoClient(uri) does
\* no I/O, server_info() is the probe
TestMongodbConnection(config, b) ==
    ExceptTested(
        IF FirstKeyError(config, <<"host", "database">>) # <<>>
        THEN RaisedInTest("key_error", FirstKeyError(config, <<"host", "database">>), 0)
        ELSE IF b = "ok" THEN Tested(TRUE, "", <<"pymongo">>, 1, 1)
        ELSE RaisedInTest("connect_failed", <<"pymongo">>, 1))

\* the try block of test_connection: validation, then the dispatch on the type
TestByType(dbs, drivers, existing, name, b) ==
    LET v == validate_database_config(dbs, name)
        config == get_database_config(dbs, name)
    IN IF ~v.valid THEN Tested(FALSE, v.error, v.detail, 0, 0)
       ELSE CASE config["type"] = "mysql" -> TestMysqlConnection(config, drivers, b)
              [] config["type"] = "postgresql" -> TestPostgresqlConnection(config, b)
              [] config["type"] = "mongodb" -> TestMongodbConnection(config, b)
              [] config["type"] = "sqlite" -> TestSqliteConnection(config, existing, b)
              [] OTHER -> Tested(FALSE, "unsupported_type", <<config["type"]>>, 0, 0)

\* test_connection dropping the config whose test failed
test_connection_Dropping(dbs, conns, drivers, existing, name, b) ==
    LET t == ExceptTested(TestByType(dbs, drivers, existing, name, b))
    IN [success |-> t.success, error |-> t.error, detail |-> t.detail,
        opens |-> t.opens, closes |-> t.closes, raised |-> t.raised,
        databases |-> IF t.success \/ name \notin DOMAIN dbs THEN dbs
                      ELSE DictDel(dbs, name),
        connections |-> conns]

\* test_connection: the (success, message) pair it returns, the connections it
\* opened and closed, and the registry and DatabaseManager.connections it leaves:
\* it works on the copy get_database_config hands out and stores nothing
test_connection(dbs, conns, drivers, existing, name, b) ==
    LET t == ExceptTested(TestByType(dbs, drivers, existing, name, b))
    IN [success |-> t.success, error |-> t.error, detail |-> t.detail,
        opens |-> t.opens, closes |-> t.closes, raised |-> t.raised,
        databases |-> dbs, connections |-> conns]

-----------------------------------------------------------------------------
(* DatabaseManager.get_connection and execute_query *)

\* what the backend does to a connect + cursor.execute
ExecOutcomes == {"ok", "connect_error", "execute_error"}

\* the exception get_connection raises before a connection exists, "" if none
ConnectionError(config, drivers, existing, b) ==
    CASE config["type"] = "mysql" ->
            IF ~MYSQL_AVAILABLE(drivers) THEN "driver_unavailable"
            ELSE IF /\ ~Truthy(DictGet(config, "username", PyNone))
                    /\ ~Truthy(DictGet(config, "user", PyNone))
                 THEN "missing_field"
            ELSE IF FirstKeyError(config, <<"host", "password", "database">>) # <<>>
                 THEN "key_error"
            ELSE IF b = "connect_error" THEN "connect_failed" ELSE ""
      [] config["type"] = "postgresql" ->
            IF /\ ~Truthy(DictGet(config, "username", PyNone))
               /\ ~Truthy(DictGet(config, "user", PyNone))
            THEN "missing_field"
            ELSE IF FirstKeyError(config, <<"host", "password", "database">>) # <<>>
                 THEN "key_error"
            ELSE IF b = "connect_error" THEN "connect_failed" ELSE ""
      [] config["type"] = "sqlite" ->
            IF "file_path" \notin DOMAIN config THEN "key_error"
            ELSE IF config["file_path"] \notin existing THEN "sqlite_missing"
            ELSE IF b = "connect_error" THEN "connect_failed" ELSE ""
      [] OTHER -> "unsupported_type"

Executed(ok, e, d, opens, closes, sent, committed, kind, rows) ==
    [success |-> ok, error |-> e, detail |-> d, opens |-> opens,
     closes |-> closes, sent |-> sent, committed |-> committed,
     kind |-> kind, rows |-> rows, raised |-> FALSE]

Refused(e, d) == Executed(FALSE, e, d, 0, 0, FALSE, FALSE, "none", 0)

\* an exception leaves the call: no result dict is built
RaisedInQuery(e, d, opens, closes, sent) ==
    [Executed(FALSE, e, d, opens, closes, sent, FALSE, "none", 0) EXCEPT !.raised = TRUE]

\* except Exception as e: return {"success": False, "error": str(e), "data": []}
ExceptExecuted(r) ==
    IF r.raised THEN [r EXCEPT !.raised = FALSE, !.success = FALSE] ELSE r

\* _execute_sql_query inside get_connection: the connection is closed in the
\* finally clause of get_connection on every path that opened one
ExecuteSqlQuery(config, drivers, existing, query, b, nrows) ==
    IF ConnectionError(config, drivers, existing, b) # ""
    THEN RaisedInQuery(ConnectionError(config, drivers, existing, b),
                       IF ConnectionError(config, drivers, existing, b)
                              = "driver_unavailable"
                       THEN DriverStatus(drivers) ELSE <<>>,
                       0, 0, FALSE)
    ELSE IF b = "execute_error"
         THEN RaisedInQuery("query_failed", <<>>, 1, 1, TRUE)
    ELSE IF StartsWith(StrUpper(StrStrip(query)), SELECT)
         THEN Executed(TRUE, "", <<>>, 1, 1, TRUE, FALSE, "row_count", nrows)
         ELSE Executed(TRUE, "", <<>>, 1, 1, TRUE, TRUE, "affected_rows", 0)

\* BlockedKeyword scanning the query as written, without upper()
BlockedKeywordCaseSensitive(keywords, query) ==
    LET q == StrStrip(query)
        hits == {i \in 1..Len(keywords) : StrContains(q, keywords[i])}
    IN IF hits = {} THEN <<>>
       ELSE keywords[CHOOSE i \in hits : \A j \in hits : i <= j]

\* the first blocked keyword that occurs in query.upper().strip(), <<>> if none
BlockedKeyword(keywords, query) ==
    LET q == StrStrip(StrUpper(query))
        hits == {i \in 1..Len(keywords) : StrContains(q, keywords[i])}
    IN IF hits = {} THEN <<>>
       ELSE keywords[CHOOSE i \in hits : \A j \in hits : i <= j]

\* the security check of execute_query: the keyword that refuses query
SecurityCheck(sec, query) ==
    LET security_config == get_security_config(sec)
    IN IF Truthy(DictGet(security_config, "allow_write_operations", PyFalse))
       THEN <<>>
       ELSE BlockedKeyword(DictGet(security_config, "blocked_keywords", <<>>), query)

\* the try block of execute_query: the security check, the config lookup, the
\* dispatch on the type
ExecuteQueryTry(dbs, sec, drivers, existing, name, query, b, nrows) ==
    LET config == get_database_config(dbs, name)
        keyword == SecurityCheck(sec, query)
    IN IF keyword # <<>>
       THEN Refused("blocked_keyword", keyword)
       ELSE IF config = NoConfig \/ DOMAIN config = {}
            THEN Refused("not_found", <<>>)
       ELSE IF "type" \notin DOMAIN config
            THEN RaisedInQuery("key_error", <<"type">>, 0, 0, FALSE)
       ELSE IF config["type"] \in {"mysql", "postgresql", "sqlite"}
            THEN ExecuteSqlQuery(config, drivers, existing, query, b, nrows)
       ELSE IF config["type"] = "mongodb"
            THEN IF b = "ok"
                 THEN Executed(TRUE, "", <<>>, 1, 1, TRUE, FALSE, "row_count", nrows)
                 ELSE Executed(FALSE, "query_failed", <<>>, 1, 1, TRUE, FALSE, "none", 0)
       ELSE Refused("unsupported_type", <<config["type"]>>)

\* execute_query without its except clause
execute_query_Propagating(dbs, sec, drivers, existing, name, query, b, nrows) ==
    ExecuteQueryTry(dbs, sec, drivers, existing, name, query, b, nrows)

\* execute_query
execute_query(dbs, sec, drivers, existing, name, query, b, nrows) ==
    ExceptExecuted(ExecuteQueryTry(dbs, sec, drivers, existing, name, query, b, nrows))

-----------------------------------------------------------------------------
(* Inputs *)

\* what templated strings are made of
Pieces ==
    {<<"$", "{", "A", "}">>, <<"$", "{", "B", "}">>, <<"$", "{">>, <<"}">>, <<"x">>}

RECURSIVE Concat(_)
Concat(ps) == IF ps = <<>> THEN <<>> ELSE Head(ps) \o Concat(Tail(ps))

\* every string of at most MaxPieces pieces
Templates ==
    {Concat(ps) : ps \in UNION {[1..n -> Pieces] : n \in 0..MaxPieces}}

\* the values an environment variable has
EnvValues == {<<"x">>, <<"$", "{", "B", "}">>, <<"$">>}

\* A is set, B is set or not
Environments ==
    [{<<"A">>} -> EnvValues] \cup [{<<"A">>, <<"B">>} -> EnvValues]

NoEnv == [environ |-> EmptyDict, docs |-> <<>>]

QueryWords ==
    {SELECT, <<"d","r","o","p">>, <<"u","p","d","a","t","e","s">>, PRAGMA}

\* the numbers of rows a backend has for a query
RowCounts == {0, 1}

RECURSIVE Join(_)
Join(ws) ==
    IF ws = <<>> THEN <<>>
    ELSE IF Len(ws) = 1 THEN ws[1]
    ELSE ws[1] \o <<" ">> \o Join(Tail(ws))

\* every query of at most MaxQueryWords words
Queries ==
    {Join(ws) : ws \in UNION {[1..n -> QueryWords] : n \in 0..MaxQueryWords}}

\* the queries the lifecycle specification issues
LifecycleQueries == {Join(<<SELECT, <<"x">>>>)}

\* the backend outcomes of the lifecycle specification: a connect succeeds or fails
LifecycleOutcomes == {"ok", "connect_error"}

\* the configs the store specification adds
StoreConfigs == {CfgMysqlToken, CfgSqlite, CfgDisabled, CfgNoType, CfgTemporary}

\* the files the lifecycle specification starts from
LifecycleFiles ==
    {AbsentFile, ValidFile([n \in UserNames |-> CfgMysql], Section(EmptyDict))}

\* the files the store specification starts from
StoreFiles ==
    {AbsentFile, TornFile, UnreadableFile, ValidFile(EmptyDict, NoSection),
     ValidFile([n \in {TempName("mysql", 0)} |-> CfgTemporaryDisabled], NoSection)}

\* the files the broker specification starts from
BrokerFiles ==
    {AbsentFile}
        \cup {ValidFile([n \in UserNames |-> config], sec) :
                config \in SampleConfigs, sec \in SecuritySamples}

DriverTables == [{"pymysql", "mysql.connector"} -> BOOLEAN]

\* the local database before any table is imported
NoTable == [exists |-> FALSE, rows |-> 0]

NoHeld == [config |-> NoConfig, alias |-> NoName, from |-> "none"]

\* every order in which a loop can visit the elements of S
Orders(S) ==
    {order \in [1..Cardinality(S) -> S] :
        \A i, j \in 1..Cardinality(S) : order[i] = order[j] => i = j}

\* the caller's reference stops being the stored object of name
Unalias(h, name) == IF h.alias = name THEN [h EXCEPT !.alias = NoName] ELSE h

Called(op, name, arg, out) == [op |-> op, name |-> name, arg |-> arg, out |-> out]

-----------------------------------------------------------------------------
(* APIConfigManager: the registry, the config file and its .json.bak *)

ApiAbsent == [state |-> "absent", apis |-> EmptyDict]
ApiTorn == [state |-> "torn", apis |-> EmptyDict]
ApiValid(apis) == [state |-> "valid", apis |-> apis]

NoApi == [apis |-> EmptyDict, config |-> ApiAbsent, bak |-> ApiAbsent]

\* APIConfigManager._load_config: config_data["apis"] after loading file f
LoadApiConfig(f) == IF f.state = "valid" THEN f.apis ELSE EmptyDict

ApiSaveOutcomes ==
    {"ok", "open_error", "write_error", "crash_renamed", "crash_writing", "crash_written"}

\* if config_path.exists(): config_path.rename(backup_path)
BackedUp(fs) ==
    IF fs.config.state # "absent" THEN [config |-> ApiAbsent, bak |-> fs.config] ELSE fs

\* except: if backup_path.exists(): backup_path.rename(self.config_file)
RestoredFromBackup(fs) ==
    IF fs.bak.state # "absent" THEN [config |-> fs.bak, bak |-> ApiAbsent] ELSE fs

\* APIConfigManager._save_config: the config file and the backup after a save
\* of registry apis that ends with outcome o
ApiSaveConfig(apis, fs, o) ==
    CASE o = "ok" -> [config |-> ApiValid(apis), bak |-> ApiAbsent]
      [] o = "open_error" -> RestoredFromBackup(BackedUp(fs))
      [] o = "write_error" -> RestoredFromBackup([BackedUp(fs) EXCEPT !.config = ApiTorn])
      [] o = "crash_renamed" -> BackedUp(fs)
      [] o = "crash_writing" -> [BackedUp(fs) EXCEPT !.config = ApiTorn]
      [] OTHER -> [BackedUp(fs) EXCEPT !.config = ApiValid(apis)]

ApiSaveRaises(o) == o \in {"open_error", "write_error"}

ApiSaveCrashes(o) == o \in {"crash_renamed", "crash_writing", "crash_written"}

ApiWritten(apis, fs, ret, died) ==
    [apis |-> apis, config |-> fs.config, bak |-> fs.bak, ret |-> ret, crashed |-> died]

\* add_api_config: the entry is assigned, then the registry is saved
add_api_config(a, api_name, config, o) ==
    LET apis == DictSet(a.apis, api_name, config) IN
    ApiWritten(apis, ApiSaveConfig(apis, [config |-> a.config, bak |-> a.bak], o),
               ~ApiSaveRaises(o) /\ ~ApiSaveCrashes(o), ApiSaveCrashes(o))

\* remove_api_config: the entry is deleted, then the registry is saved
remove_api_config(a, api_name, o) ==
    IF api_name \in DOMAIN a.apis
    THEN LET apis == DictDel(a.apis, api_name) IN
         ApiWritten(apis, ApiSaveConfig(apis, [config |-> a.config, bak |-> a.bak], o),
                    ~ApiSaveRaises(o) /\ ~ApiSaveCrashes(o), ApiSaveCrashes(o))
    ELSE ApiWritten(a.apis, [config |-> a.config, bak |-> a.bak], FALSE, FALSE)

\* no thread is inside add_database_config or remove_database_config
NoWriters == <<>>

-----------------------------------------------------------------------------
(* State machine *)

\* no call is being served: the last result was handed to the caller
Idle == Called("idle", NoName, <<>>, <<>>)

\* a tool call is served when the process is alive and the previous call returned
Ready == ~crashed /\ result = Idle

\* ConfigManager() and DatabaseManager() constructed at import, the config file
\* being one of initial
Constructed(initial) ==
    /\ env = NoEnv
    /\ disk \in initial
    /\ databases = LoadConfig(disk).databases
    /\ security = LoadConfig(disk).security
    /\ MYSQL_DRIVERS \in DriverTables
    /\ connections = EmptyDict
    /\ files = {ExistingFile}
    /\ leaked = 0
    /\ clock = 0
    /\ held = NoHeld
    /\ crashed = FALSE
    /\ result = Idle
    /\ local = NoTable
    /\ handles = <<>>
    /\ api = NoApi
    /\ writers = NoWriters

Init == Constructed(LifecycleFiles)

\* manage_database_config(action="list")
ListDatabases ==
    /\ Ready
    /\ result' = Called("list", NoName, <<>>, list_databases(databases))
    /\ UNCHANGED <<api, writers, env, local, handles, databases, security, disk, MYSQL_DRIVERS, connections, files,
                   leaked, clock, held, crashed>>

\* manage_database_config(action="list_temp")
ListTemporary ==
    /\ Ready
    /\ result' = Called("list_temp", NoName, <<>>, get_temporary_configs(databases))
    /\ UNCHANGED <<api, writers, env, local, handles, databases, security, disk, MYSQL_DRIVERS, connections, files,
                   leaked, clock, held, crashed>>

\* manage_database_config(action="test") -> DatabaseManager.test_connection
TestConnection(name, b) ==
    /\ Ready
    /\ \E t \in {test_connection(databases, connections, MYSQL_DRIVERS, files,
                                 name, b)} :
       /\ leaked + t.opens - t.closes <= MaxLeaked
       /\ leaked' = leaked + t.opens - t.closes
       /\ databases' = t.databases
       /\ connections' = t.connections
       /\ result' = Called("test", name, <<>>,
                           [success |-> t.success, error |-> t.error,
                            detail |-> t.detail, opens |-> t.opens,
                            closes |-> t.closes, raised |-> t.raised])
       /\ UNCHANGED <<api, writers, env, local, handles, security, disk, MYSQL_DRIVERS, files, clock, held, crashed>>

\* DatabaseManager.execute_query (query_external_database)
ExecuteQuery(name, query, b, nrows) ==
    /\ Ready
    /\ \E e \in {execute_query(databases, security, MYSQL_DRIVERS, files, name,
                            query, b, nrows)} :
       /\ leaked' = leaked + e.opens - e.closes
       /\ result' = Called("execute_query", name, query, e)
       /\ UNCHANGED <<api, writers, env, local, handles, databases, security, disk, MYSQL_DRIVERS, connections,
                      files, clock, held, crashed>>

\* ConfigManager.get_database_config called directly: the caller keeps what it
\* returned
GetDatabaseConfig(name) ==
    /\ Ready
    /\ held' = Returned(databases, name)
    /\ result' = Called("get", name, <<>>, get_database_config(databases, name))
    /\ UNCHANGED <<api, writers, env, local, handles, databases, security, disk, MYSQL_DRIVERS, connections, files,
                   leaked, clock, crashed>>

\* the caller assigns a field of the dict it holds; the registry changes with it
\* when that dict is the stored object itself
MutateHeld(key, value) ==
    /\ Ready
    /\ held.config # NoConfig
    /\ DictGet(held.config, key, PyNone) # value
    /\ held' = [held EXCEPT !.config = DictSet(held.config, key, value)]
    /\ databases' = IF held.alias \in DOMAIN databases
                    THEN [databases EXCEPT ![held.alias] = DictSet(held.config, key, value)]
                    ELSE databases
    /\ result' = Called("mutate", held.alias, <<key, value>>, <<>>)
    /\ UNCHANGED <<api, writers, env, local, handles, security, disk, MYSQL_DRIVERS, connections, files, leaked,
                   clock, crashed>>

\* manage_database_config(action="add") -> ConfigManager.add_database_config;
\* the registry stores the caller's dict itself
AddDatabaseConfig(name, config, o) ==
    /\ Ready
    /\ \E w \in {add_database_config(databases, security, disk, name, config, o)} :
       /\ name \in DOMAIN databases \/ Cardinality(DOMAIN databases) < MaxConfigs
       /\ databases' = w.databases
       /\ disk' = w.disk
       /\ crashed' = w.crashed
       /\ held' = [config |-> config, alias |-> name, from |-> "add"]
       /\ result' = Called("add", name, config, w.ret)
       /\ UNCHANGED <<api, writers, env, local, handles, security, MYSQL_DRIVERS, connections, files, leaked, clock>>

\* manage_database_config(action="remove") -> ConfigManager.remove_database_config
RemoveDatabaseConfig(name, o) ==
    /\ Ready
    /\ \E w \in {remove_database_config(databases, security, disk, name, o)} :
       /\ databases' = w.databases
       /\ disk' = w.disk
       /\ crashed' = w.crashed
       /\ held' = Unalias(held, name)
       /\ result' = Called("remove", name, <<>>, w.ret)
       /\ UNCHANGED <<api, writers, env, local, handles, security, MYSQL_DRIVERS, connections, files, leaked, clock>>

\* manage_database_config(action="cleanup_temp") -> cleanup_temporary_configs
CleanupTemporaryConfigs(order, outs) ==
    /\ Ready
    /\ \E w \in {CleanupLoop(databases, security, disk, order, outs)} :
       /\ databases' = w.databases
       /\ disk' = w.disk
       /\ crashed' = w.crashed
       /\ held' = IF held.alias \in DOMAIN w.databases THEN held
                  ELSE [held EXCEPT !.alias = NoName]
       /\ result' = Called("cleanup_temp", NoName, order, w.ret)
       /\ UNCHANGED <<api, writers, env, local, handles, security, MYSQL_DRIVERS, connections, files, leaked, clock>>

\* manage_database_config(action="reload") -> reload_config
ReloadConfig ==
    /\ Ready
    /\ databases' = LoadConfig(disk).databases
    /\ security' = LoadConfig(disk).security
    /\ held' = [held EXCEPT !.alias = NoName]
    /\ result' = Called("reload", NoName, <<>>, [raised |-> LoadConfig(disk).raised])
    /\ UNCHANGED <<api, writers, env, local, handles, disk, MYSQL_DRIVERS, connections, files, leaked, clock, crashed>>

-----------------------------------------------------------------------------
(* connect_data_source with inline credentials *)

Connected(dbs, f, died, status, tested, opens, closes) ==
    [databases |-> dbs, disk |-> f, crashed |-> died, status |-> status,
     tested |-> tested, opens |-> opens, closes |-> closes]

\* the body shared by _connect_external_database and _connect_sqlite of
\* datamaster_mcp/main.py: add, test, remove on a failed test or an exception,
\* keep on success
ConnectTemporary(dbs, sec, f, conns, drivers, existing, name, config, o1, b, late, o2) ==
    LET w1 == add_database_config(dbs, sec, f, name, config, o1)
        t == test_connection(w1.databases, conns, drivers, existing, name, b)
        w2 == remove_database_config(t.databases, sec, w1.disk, name, o2)
    IN IF w1.crashed
       THEN Connected(w1.databases, w1.disk, TRUE, "crashed", "none", 0, 0)
       ELSE IF ~w1.ret
            THEN Connected(w1.databases, w1.disk, FALSE, "add_failed", "none", 0, 0)
       ELSE IF ~t.success
            THEN Connected(w2.databases, w2.disk, w2.crashed, "test_failed",
                           "failed", t.opens, t.closes)
       ELSE IF late
            THEN Connected(w2.databases, w2.disk, w2.crashed, "exception",
                           "passed", t.opens, t.closes)
       ELSE Connected(t.databases, w1.disk, FALSE, "success", "passed",
                      t.opens, t.closes)

\* the inline branch of _connect_external_database of main.py: the finally
\* clause removes the config on every path
ConnectTemporaryLegacy(dbs, sec, f, conns, drivers, existing, name, config, o1, b, late, o2) ==
    LET w1 == add_database_config(dbs, sec, f, name, config, o1)
        t == test_connection(w1.databases, conns, drivers, existing, name, b)
        w2 == remove_database_config(t.databases, sec, w1.disk, name, o2)
    IN IF w1.crashed
       THEN Connected(w1.databases, w1.disk, TRUE, "crashed", "none", 0, 0)
       ELSE IF ~w1.ret
            THEN Connected(w1.databases, w1.disk, FALSE, "add_failed", "none", 0, 0)
       ELSE IF ~t.success
            THEN Connected(w2.databases, w2.disk, w2.crashed, "test_failed",
                           "failed", t.opens, t.closes)
       ELSE IF late
            THEN Connected(w2.databases, w2.disk, w2.crashed, "exception",
                           "passed", t.opens, t.closes)
       ELSE Connected(w2.databases, w2.disk, w2.crashed, "success", "passed",
                      t.opens, t.closes)

\* config_with_type of datamaster_mcp/main.py
TemporaryConfig(db_type, params, now) ==
    [k \in DOMAIN params \cup {"type", "enabled", "description", "_is_temporary",
                                "_created_at"} |->
        CASE k = "type" -> db_type
          [] k = "enabled" -> PyTrue
          [] k = "description" -> "temporary"
          [] k = "_is_temporary" -> PyTrue
          [] k = "_created_at" -> IsoFormat(now)
          [] OTHER -> params[k]]

\* config_with_type of main.py
TemporaryConfigLegacy(db_type, params) ==
    [k \in DOMAIN params \cup {"type", "enabled"} |->
        CASE k = "type" -> db_type
          [] k = "enabled" -> PyTrue
          [] OTHER -> params[k]]

\* the effect of a connect call on the state
ConnectStep(op, name, config, c) ==
    /\ leaked + c.opens - c.closes <= MaxLeaked
    /\ databases' = c.databases
    /\ disk' = c.disk
    /\ crashed' = c.crashed
    /\ leaked' = leaked + c.opens - c.closes
    /\ held' = held
    /\ result' = Called(op, name, config, [status |-> c.status, tested |-> c.tested,
                                           opens |-> c.opens, closes |-> c.closes])
    /\ UNCHANGED <<api, writers, env, local, handles, security, MYSQL_DRIVERS, connections, files, clock>>

\* datamaster_mcp/main.py _connect_external_database(db_type, config: dict)
ConnectExternalDatabase(db_type, params, o1, b, late, o2) ==
    /\ Ready
    /\ \/ TempName(db_type, clock) \in DOMAIN databases
       \/ Cardinality(DOMAIN databases) < MaxConfigs
    /\ \E c \in {ConnectTemporary(databases, security, disk, connections, MYSQL_DRIVERS, files,
                                   TempName(db_type, clock),
                                   TemporaryConfig(db_type, params, clock),
                                   o1, b, late, o2)} :
          ConnectStep("connect", TempName(db_type, clock),
                      TemporaryConfig(db_type, params, clock), c)

\* main.py _connect_external_database(db_type, config: dict)
ConnectExternalDatabaseLegacy(db_type, params, o1, b, late, o2) ==
    /\ Ready
    /\ \/ TempName(db_type, clock) \in DOMAIN databases
       \/ Cardinality(DOMAIN databases) < MaxConfigs
    /\ \E c \in {ConnectTemporaryLegacy(databases, security, disk, connections,
                                         MYSQL_DRIVERS,
                                         files, TempName(db_type, clock),
                                         TemporaryConfigLegacy(db_type, params),
                                         o1, b, late, o2)} :
          ConnectStep("connect_legacy", TempName(db_type, clock),
                      TemporaryConfigLegacy(db_type, params), c)

\* datamaster_mcp/main.py _connect_sqlite(config): no config is created for an
\* empty or missing file_path
ConnectSqlite(file_path, o1, b, late, o2) ==
    /\ Ready
    /\ \/ TempName("sqlite", clock) \in DOMAIN databases
       \/ Cardinality(DOMAIN databases) < MaxConfigs
    /\ IF file_path \notin files
       THEN /\ result' = Called("connect_sqlite", NoName, <<file_path>>,
                                [status |-> "file_missing", tested |-> "none",
                                 opens |-> 0, closes |-> 0])
            /\ UNCHANGED <<api, writers, env, local, handles, databases, security, disk, MYSQL_DRIVERS, connections,
                           files, leaked, clock, held, crashed>>
       ELSE \E c \in {ConnectTemporary(databases, security, disk, connections, MYSQL_DRIVERS,
                                       files, TempName("sqlite", clock),
                                       TemporaryConfig("sqlite",
                                                       [file_path |-> file_path],
                                                       clock),
                                       o1, b, late, o2)} :
               ConnectStep("connect_sqlite", TempName("sqlite", clock),
                           TemporaryConfig("sqlite", [file_path |-> file_path], clock),
                           c)

\* the result of the call is handed to the caller
Return ==
    /\ ~crashed
    /\ result # Idle
    /\ result' = Idle
    /\ UNCHANGED <<api, writers, env, local, handles, databases, security, disk, MYSQL_DRIVERS, connections, files,
                   leaked, clock, held, crashed>>

\* a second passes
Tick ==
    /\ ~crashed
    /\ clock < MaxClock
    /\ clock' = clock + 1
    /\ UNCHANGED <<api, writers, env, local, handles, databases, security, disk, MYSQL_DRIVERS, connections, files,
                   leaked, held, crashed, result>>

\* the process is started again after it died: both managers are constructed
Restart ==
    /\ crashed
    /\ databases' = LoadConfig(disk).databases
    /\ security' = LoadConfig(disk).security
    /\ connections' = EmptyDict
    /\ leaked' = 0
    /\ held' = NoHeld
    /\ api' = [api EXCEPT !.apis = LoadApiConfig(api.config)]
    /\ crashed' = FALSE
    /\ result' = Idle
    /\ UNCHANGED <<writers, env, local, handles, disk, MYSQL_DRIVERS, files, clock>>

\* the lifecycle of temporary configs
Next ==
    \/ ListDatabases
    \/ ListTemporary
    \/ \E name \in DOMAIN databases \cup UserNames, b \in LifecycleOutcomes :
          TestConnection(name, b)
    \/ \E name \in DOMAIN databases \cup UserNames, query \in LifecycleQueries,
          b \in LifecycleOutcomes :
          ExecuteQuery(name, query, b, 1)
    \/ \E name \in DOMAIN databases \cup UserNames, o \in SaveOutcomes :
          RemoveDatabaseConfig(name, o)
    \/ \E order \in Orders(TemporaryNames(databases)) :
          \E outs \in [1..Len(order) -> SaveOutcomes] :
             CleanupTemporaryConfigs(order, outs)
    \/ ReloadConfig
    \/ \E params \in InlineParams, o1 \in SaveOutcomes, b \in LifecycleOutcomes,
          late \in BOOLEAN, o2 \in SaveOutcomes :
          ConnectExternalDatabase("mysql", params, o1, b, late, o2)
    \/ \E params \in InlineParams, o1 \in SaveOutcomes, b \in LifecycleOutcomes,
          late \in BOOLEAN, o2 \in SaveOutcomes :
          ConnectExternalDatabaseLegacy("mysql", params, o1, b, late, o2)
    \/ \E file_path \in {ExistingFile, MissingFile}, o1 \in SaveOutcomes,
          b \in LifecycleOutcomes, late \in BOOLEAN, o2 \in SaveOutcomes :
          ConnectSqlite(file_path, o1, b, late, o2)
    \/ Return
    \/ Tick
    \/ Restart

Spec == Init /\ [][Next]_vars

\* the registry used directly: add, get, remove, reload
InitStore == Constructed(StoreFiles)

NextStore ==
    \/ ListDatabases
    \/ ListTemporary
    \/ \E name \in UserNames : GetDatabaseConfig(name)
    \/ MutateHeld("host", "h2")
    \/ \E name \in UserNames, config \in StoreConfigs, o \in SaveOutcomes :
          AddDatabaseConfig(name, config, o)
    \/ \E name \in UserNames, o \in SaveOutcomes : RemoveDatabaseConfig(name, o)
    \/ \E order \in Orders(TemporaryNames(databases)) :
          \E outs \in [1..Len(order) -> SaveOutcomes] :
             CleanupTemporaryConfigs(order, outs)
    \/ ReloadConfig
    \/ Return
    \/ Restart

SpecStore == InitStore /\ [][NextStore]_vars

\* test_connection and execute_query over every sample config, security
\* section and query
InitBroker == Constructed(BrokerFiles)

NextBroker ==
    \/ \E name \in UserNames \cup {TempName("mysql", 0)}, b \in TestOutcomes :
          TestConnection(name, b)
    \/ \E name \in UserNames \cup {TempName("mysql", 0)}, query \in Queries,
          b \in ExecOutcomes, nrows \in RowCounts :
          ExecuteQuery(name, query, b, nrows)
    \/ Return

SpecBroker == InitBroker /\ [][NextBroker]_vars

\* the state a specification of the file and environment handling leaves alone
ManagersIdle ==
    /\ disk = AbsentFile
    /\ databases = LoadConfig(disk).databases
    /\ security = LoadConfig(disk).security
    /\ MYSQL_DRIVERS = [d \in {"pymysql", "mysql.connector"} |-> TRUE]
    /\ connections = EmptyDict
    /\ files = {ExistingFile}
    /\ leaked = 0
    /\ clock = 0
    /\ held = NoHeld
    /\ crashed = FALSE
    /\ result = Idle
    /\ api = NoApi
    /\ writers = NoWriters

\* a one-string document and an environment
InitEnv ==
    /\ env \in {[environ |-> e, docs |-> <<<<t>>>>] :
                    e \in Environments, t \in Templates}
    /\ ManagersIdle
    /\ local = NoTable
    /\ handles = <<>>

\* _resolve_environment_variables: config_data = replace_env_vars(config_data);
\* docs keeps the document before and after each application
ResolveEnvironmentVariables ==
    /\ Len(env.docs) < 3
    /\ env' = [env EXCEPT !.docs =
                  Append(@, replace_env_vars(env.docs[Len(env.docs)], env.environ))]
    /\ UNCHANGED <<api, writers, databases, security, disk, MYSQL_DRIVERS, connections, files,
                   leaked, clock, held, crashed, result, local, handles>>

NextEnv == ResolveEnvironmentVariables

SpecEnv == InitEnv /\ [][NextEnv]_vars

-----------------------------------------------------------------------------
(* The query tools: execute_sql on the local database, query_external_database *)

LIMIT == <<"L","I","M","I","T">>

Digits == <<"0", "1", "2", "3", "4", "5", "6", "7", "8", "9">>

\* f"{limit}" for a one-digit limit
FormatInt(n) == <<Digits[n + 1]>>

\* the number a one-digit literal stands for, -1 for any other word
ParseInt(w) ==
    IF \E n \in 0..9 : FormatInt(n) = w
    THEN CHOOSE n \in 0..9 : FormatInt(n) = w
    ELSE -1

\* str.split(): the words between runs of spaces
RECURSIVE Words(_)
Words(s) ==
    LET t == LStrip(s)
        spaces == {i \in 1..Len(t) : t[i] = " "}
        e == IF spaces = {} THEN Len(t) + 1
             ELSE CHOOSE i \in spaces : \A j \in spaces : i <= j
    IN IF t = <<>> THEN <<>>
       ELSE <<SubSeq(t, 1, e - 1)>> \o Words(SubSeq(t, e, Len(t)))

\* str.rstrip(';')
RECURSIVE RStripSemicolon(_)
RStripSemicolon(s) ==
    IF s # <<>> /\ s[Len(s)] = ";" THEN RStripSemicolon(SubSeq(s, 1, Len(s) - 1))
    ELSE s

\* _preprocess_sql of datamaster_mcp/main.py
PreprocessSql(query) == StrStrip(RStripSemicolon(StrStrip(query)))

\* the ValueError of _preprocess_sql of core/database.py: the first dangerous
\* keyword found in a query that does not start with SELECT, <<>> if none
DangerousKeyword(query) ==
    IF StartsWith(StrStrip(StrUpper(query)), SELECT) THEN <<>>
    ELSE BlockedKeyword(DefaultBlockedKeywords, query)

\* what SQLite does with one statement on the one-table database db: the rows it
\* returns and the database it leaves once the connection commits
SqliteExecute(db, query) ==
    LET ws == Words(query)
        first == IF ws = <<>> THEN <<>> ELSE StrUpper(ws[1])
        clause == Len(ws) = 4 /\ StrUpper(ws[3]) = LIMIT /\ ParseInt(ws[4]) >= 0
        bound == IF clause THEN ParseInt(ws[4]) ELSE db.rows
    IN CASE first = SELECT /\ (Len(ws) = 2 \/ clause) ->
              IF db.exists
              THEN [error |-> "", rows |-> IF db.rows < bound THEN db.rows ELSE bound,
                    db |-> db]
              ELSE [error |-> "no_such_table", rows |-> 0, db |-> db]
         [] first = DELETE /\ Len(ws) = 2 ->
              IF db.exists
              THEN [error |-> "", rows |-> 0, db |-> [db EXCEPT !.rows = 0]]
              ELSE [error |-> "no_such_table", rows |-> 0, db |-> db]
         [] first = DROP /\ Len(ws) = 2 ->
              IF db.exists
              THEN [error |-> "", rows |-> 0, db |-> [exists |-> FALSE, rows |-> 0]]
              ELSE [error |-> "no_such_table", rows |-> 0, db |-> db]
         [] OTHER -> [error |-> "syntax_error", rows |-> 0, db |-> db]

Queried(status, e, query, returned, db) ==
    [status |-> status, error |-> e, query |-> query, returned |-> returned,
     db |-> db]

\* execute_sql of datamaster_mcp/main.py without a data_source: the statement is
\* preprocessed, " LIMIT {limit}" is appended when the text has no "LIMIT" and
\* has "SELECT", and the statement runs on the local database
execute_sql(db, query, limit) ==
    LET q0 == PreprocessSql(query)
        q == IF ~StrContains(StrUpper(q0), LIMIT) /\ StrContains(StrUpper(q0), SELECT)
             THEN q0 \o <<" ">> \o LIMIT \o <<" ">> \o FormatInt(limit)
             ELSE q0
        r == SqliteExecute(db, q)
    IN IF r.error # "" THEN Queried("error", r.error, q, 0, db)
       ELSE Queried("success", "", q, r.rows, r.db)

\* execute_sql_impl of core/database.py
execute_sql_impl(db, query, limit) ==
    LET q0 == Join(Words(query))
        q == IF limit > 0 /\ ~StrContains(StrUpper(q0), LIMIT)
             THEN q0 \o <<" ">> \o LIMIT \o <<" ">> \o FormatInt(limit)
             ELSE q0
        r == SqliteExecute(db, q)
    IN IF DangerousKeyword(q0) # <<>> THEN Queried("error", "not_allowed", q0, 0, db)
       ELSE IF r.error # "" THEN Queried("error", r.error, q, 0, db)
       ELSE Queried("success", "", q, r.rows, r.db)

\* query_external_database: execute_query, then data[:limit]
query_external_database(dbs, sec, drivers, existing, name, query, limit, b, nrows) ==
    LET e == execute_query(dbs, sec, drivers, existing, name, query, b, nrows)
    IN IF e.success
       THEN [status |-> "success", error |-> "", query |-> query,
             returned |-> IF e.rows > limit THEN limit ELSE e.rows,
             opens |-> e.opens, closes |-> e.closes]
       ELSE [status |-> "error", error |-> e.error, query |-> query, returned |-> 0,
             opens |-> e.opens, closes |-> e.closes]

\* the statements the query tools are given
SqlQueries ==
    {Join(<<SELECT, <<"t">>>>),
     Join(<<SELECT, <<"r","a","t","e","_","l","i","m","i","t">>>>),
     Join(<<SELECT, <<"t">>, LIMIT, <<"1">>>>),
     Join(<<<<"s","e","l","e","c","t">>, <<"t",";">>>>),
     Join(<<DROP, <<"t">>>>),
     Join(<<<<"d","e","l","e","t","e">>, <<"t">>>>),
     Join(<<PRAGMA, <<"t">>>>)}

\* the limits a caller passes
Limits == 1..MaxLimit

\* the local database with its table imported
LocalTables == {[exists |-> TRUE, rows |-> n] : n \in 0..MaxRows}

\* the execute_sql tool on the local database
ExecuteSql(query, limit) ==
    /\ Ready
    /\ \E q \in {execute_sql(local, query, limit)} :
       /\ local' = q.db
       /\ result' = Called("execute_sql", NoName, [query |-> query, limit |-> limit],
                           [status |-> q.status, error |-> q.error, query |-> q.query,
                            returned |-> q.returned])
       /\ UNCHANGED <<api, writers, env, handles, databases, security, disk, MYSQL_DRIVERS,
                      connections, files, leaked, clock, held, crashed>>

\* execute_sql_impl of the core package on the local database
ExecuteSqlImpl(query, limit) ==
    /\ Ready
    /\ \E q \in {execute_sql_impl(local, query, limit)} :
       /\ local' = q.db
       /\ result' = Called("execute_sql_impl", NoName, [query |-> query, limit |-> limit],
                           [status |-> q.status, error |-> q.error, query |-> q.query,
                            returned |-> q.returned])
       /\ UNCHANGED <<api, writers, env, handles, databases, security, disk, MYSQL_DRIVERS,
                      connections, files, leaked, clock, held, crashed>>

\* the query_external_database tool
QueryExternalDatabase(name, query, limit, b, nrows) ==
    /\ Ready
    /\ \E q \in {query_external_database(databases, security, MYSQL_DRIVERS, files,
                                         name, query, limit, b, nrows)} :
       /\ leaked' = leaked + q.opens - q.closes
       /\ result' = Called("query_external", name, [query |-> query, limit |-> limit],
                           [status |-> q.status, error |-> q.error, query |-> q.query,
                            returned |-> q.returned])
       /\ UNCHANGED <<api, writers, env, local, handles, databases, security, disk, MYSQL_DRIVERS,
                      connections, files, clock, held, crashed>>

\* a registry with one SQLite config and a local database with its table
InitSql ==
    /\ env = NoEnv
    /\ disk = ValidFile([n \in UserNames |-> CfgSqlite], NoSection)
    /\ databases = LoadConfig(disk).databases
    /\ security = LoadConfig(disk).security
    /\ MYSQL_DRIVERS = [d \in {"pymysql", "mysql.connector"} |-> TRUE]
    /\ connections = EmptyDict
    /\ files = {ExistingFile}
    /\ leaked = 0
    /\ clock = 0
    /\ held = NoHeld
    /\ crashed = FALSE
    /\ result = Idle
    /\ local \in LocalTables
    /\ handles = <<>>
    /\ api = NoApi
    /\ writers = NoWriters

NextSql ==
    \/ \E query \in SqlQueries, limit \in Limits : ExecuteSql(query, limit)
    \/ \E query \in SqlQueries, limit \in Limits : ExecuteSqlImpl(query, limit)
    \/ \E name \in UserNames, query \in SqlQueries, limit \in Limits,
          b \in ExecOutcomes, nrows \in 0..MaxRows :
          QueryExternalDatabase(name, query, limit, b, nrows)
    \/ Return

SpecSql == InitSql /\ [][NextSql]_vars

-----------------------------------------------------------------------------
(* get_connection, step by step *)

\* get_connection keeping the connection it opened in self.connections
get_connection_Pooling(conns, dbs, drivers, existing, name, handle, b) ==
    LET config == get_database_config(dbs, name)
        e == IF config = NoConfig \/ DOMAIN config = {} THEN "not_found"
             ELSE IF "type" \notin DOMAIN config THEN "key_error"
             ELSE IF config["type"] = "mongodb"
                  THEN (IF b = "connect_error" THEN "connect_failed" ELSE "")
             ELSE ConnectionError(config, drivers, existing, b)
    IN [error |-> e,
        connections |-> IF e = "" THEN DictSet(conns, name, handle) ELSE conns]

\* the try block of get_connection up to the yield: the config is looked up, the
\* helper of its type connects; the connection is a local of the generator and
\* self.connections is left alone
get_connection(conns, dbs, drivers, existing, name, handle, b) ==
    LET config == get_database_config(dbs, name)
        e == IF config = NoConfig \/ DOMAIN config = {} THEN "not_found"
             ELSE IF "type" \notin DOMAIN config THEN "key_error"
             ELSE IF config["type"] = "mongodb"
                  THEN (IF b = "connect_error" THEN "connect_failed" ELSE "")
             ELSE ConnectionError(config, drivers, existing, b)
    IN [error |-> e, connections |-> conns]

\* a host that accepts nothing and never answers
SilentHost == "h0"

CfgMysqlSilent == [CfgMysql EXCEPT !.host = SilentHost]
CfgPostgresqlSilent == [CfgPostgresql EXCEPT !.host = SilentHost]
CfgMongodbSilent == [CfgMongodb EXCEPT !.host = SilentHost]

\* the connect timeout, in seconds, the helpers of a path pass to the driver's
\* connect call, 0 when they pass none: _test_mysql_connection
\* (connect_timeout=10 / connection_timeout=10), _test_postgresql_connection
\* (connect_timeout=10), _test_mongodb_connection (serverSelectionTimeoutMS=10000)
\* and _test_sqlite_connection (timeout=10) pass one, the _get_*_connection
\* helpers of get_connection pass none
ConnectTimeout(path, db_type) == IF path = "test" THEN 10 ELSE 0

\* get_connection gets as far as the driver's connect call
QueryConnectReached(dbs, drivers, existing, name) ==
    LET config == get_database_config(dbs, name) IN
    /\ config # NoConfig
    /\ "type" \in DOMAIN config
    /\ config["type"] \in {"mysql", "postgresql"}
    /\ ConnectionError(config, drivers, existing, "ok") = ""

\* the driver's connect call comes back with backend outcome b: at once when the
\* host answers, after the timeout (as a failure) when the host is silent and a
\* timeout was passed, never when the host is silent and no timeout was passed
ConnectReturns(path, config, reached, b) ==
    IF ~reached \/ config["host"] # SilentHost THEN TRUE
    ELSE ConnectTimeout(path, config["type"]) > 0 /\ b # "ok"

\* the configs the connection specification starts from
ConnectionFiles ==
    {ValidFile([n \in UserNames |-> config], NoSection) :
        config \in {CfgMysql, CfgSqlite, CfgSqliteMissing, CfgMysqlNoHost, CfgMongodb}}

\* the handle the call being served works on
Current == result.out.handle

InGetConnection(state) ==
    /\ ~crashed
    /\ result.op = "get_connection"
    /\ handles[Current].state = state

\* with self.get_connection(database_name) as connection: the generator is created
GetConnection(name) ==
    /\ Ready
    /\ Len(handles) < MaxHandles
    /\ handles' = Append(handles, [name |-> name, state |-> "Requested"])
    /\ result' = Called("get_connection", name, <<>>, [handle |-> Len(handles) + 1])
    /\ UNCHANGED <<api, writers, env, local, databases, security, disk, MYSQL_DRIVERS, connections,
                   files, leaked, clock, held, crashed>>

\* the generator runs into its try block
EnterGetConnection ==
    /\ InGetConnection("Requested")
    /\ handles' = [handles EXCEPT ![Current].state = "Connecting"]
    /\ UNCHANGED <<api, writers, env, local, databases, security, disk, MYSQL_DRIVERS, connections,
                   files, leaked, clock, held, crashed, result>>

\* connection = self._get_*_connection(config), or an exception before it
Connect(b) ==
    /\ InGetConnection("Connecting")
    /\ ConnectReturns("query", get_database_config(databases, result.name),
                      QueryConnectReached(databases, MYSQL_DRIVERS, files, result.name), b)
    /\ \E g \in {get_connection(connections, databases, MYSQL_DRIVERS, files,
                                result.name, Current, b)} :
       /\ connections' = g.connections
       /\ handles' = [handles EXCEPT ![Current].state =
                         IF g.error = "" THEN "Connected" ELSE "ConnectFailed"]
       /\ leaked' = IF g.error = "" THEN leaked + 1 ELSE leaked
    /\ UNCHANGED <<api, writers, env, local, databases, security, disk, MYSQL_DRIVERS, files, clock,
                   held, crashed, result>>

\* yield connection: the body of the with statement gets it
Yield ==
    /\ InGetConnection("Connected")
    /\ handles' = [handles EXCEPT ![Current].state = "InUse"]
    /\ UNCHANGED <<api, writers, env, local, databases, security, disk, MYSQL_DRIVERS, connections,
                   files, leaked, clock, held, crashed, result>>

\* the body ends, normally or with an exception; finally: connection.close()
Release ==
    /\ InGetConnection("InUse")
    /\ handles' = [handles EXCEPT ![Current].state = "Released"]
    /\ leaked' = leaked - 1
    /\ UNCHANGED <<api, writers, env, local, databases, security, disk, MYSQL_DRIVERS, connections,
                   files, clock, held, crashed, result>>

\* the with statement is left
LeaveGetConnection ==
    /\ ~crashed
    /\ result.op = "get_connection"
    /\ handles[Current].state \in {"Released", "ConnectFailed"}
    /\ result' = Idle
    /\ UNCHANGED <<api, writers, env, local, handles, databases, security, disk, MYSQL_DRIVERS,
                   connections, files, leaked, clock, held, crashed>>

InitConnection == Constructed(ConnectionFiles)

NextConnection ==
    \/ \E name \in UserNames \cup {TempName("mysql", 0)} : GetConnection(name)
    \/ EnterGetConnection
    \/ \E b \in ExecOutcomes : Connect(b)
    \/ Yield
    \/ Release
    \/ LeaveGetConnection

SpecConnection == InitConnection /\ [][NextConnection]_vars

-----------------------------------------------------------------------------
(* manage_api_config: the API registry next to the database registry *)

ApiNames == {<<"api", "weather", 0>>, <<"api", "stocks", 0>>}
ApiConfigs == {[base_url |-> "u1"], [base_url |-> "u2"]}

\* manage_api_config(action="add") -> APIConfigManager.add_api_config
AddApiConfig(api_name, config, o) ==
    /\ Ready
    /\ \E w \in {add_api_config(api, api_name, config, o)} :
       /\ api' = [apis |-> w.apis, config |-> w.config, bak |-> w.bak]
       /\ crashed' = w.crashed
       /\ result' = Called("add_api", api_name, o, w.ret)
    /\ UNCHANGED <<writers, env, local, handles, databases, security, disk, MYSQL_DRIVERS,
                   connections, files, leaked, clock, held>>

\* manage_api_config(action="remove") -> APIConfigManager.remove_api_config
RemoveApiConfig(api_name, o) ==
    /\ Ready
    /\ \E w \in {remove_api_config(api, api_name, o)} :
       /\ api' = [apis |-> w.apis, config |-> w.config, bak |-> w.bak]
       /\ crashed' = w.crashed
       /\ result' = Called("remove_api", api_name, o, w.ret)
    /\ UNCHANGED <<writers, env, local, handles, databases, security, disk, MYSQL_DRIVERS,
                   connections, files, leaked, clock, held>>

\* manage_api_config(action="reload") -> APIConfigManager.reload_config
ReloadApiConfig ==
    /\ Ready
    /\ api' = [api EXCEPT !.apis = LoadApiConfig(api.config)]
    /\ result' = Called("reload_api", NoName, <<>>, <<>>)
    /\ UNCHANGED <<writers, env, local, handles, databases, security, disk, MYSQL_DRIVERS,
                   connections, files, leaked, clock, held, crashed>>

ApiStoreConfigs == {CfgMysql, CfgSqlite}

\* both managers constructed, each on an absent or a valid config file
InitApi ==
    /\ env = NoEnv
    /\ disk \in {AbsentFile, ValidFile([n \in UserNames |-> CfgMysql], NoSection)}
    /\ databases = LoadConfig(disk).databases
    /\ security = LoadConfig(disk).security
    /\ MYSQL_DRIVERS = [d \in {"pymysql", "mysql.connector"} |-> TRUE]
    /\ connections = EmptyDict
    /\ files = {ExistingFile}
    /\ leaked = 0
    /\ clock = 0
    /\ held = NoHeld
    /\ crashed = FALSE
    /\ result = Idle
    /\ local = NoTable
    /\ handles = <<>>
    /\ \E f \in {ApiAbsent, ApiValid([n \in {<<"api", "weather", 0>>} |-> [base_url |-> "u1"]])} :
          api = [apis |-> LoadApiConfig(f), config |-> f, bak |-> ApiAbsent]
    /\ writers = NoWriters

NextApi ==
    \/ \E n \in ApiNames, config \in ApiConfigs, o \in ApiSaveOutcomes : AddApiConfig(n, config, o)
    \/ \E n \in ApiNames, o \in ApiSaveOutcomes : RemoveApiConfig(n, o)
    \/ ReloadApiConfig
    \/ \E n \in UserNames, config \in ApiStoreConfigs, o \in SaveOutcomes : AddDatabaseConfig(n, config, o)
    \/ \E n \in UserNames, o \in SaveOutcomes : RemoveDatabaseConfig(n, o)
    \/ Return
    \/ Restart

SpecApi == InitApi /\ [][NextApi]_vars

-----------------------------------------------------------------------------
(* a config file with ${NAME} placeholders, loaded and saved again *)

\* a MySQL config whose charset is the templated string t
CfgTemplated(t) ==
    [type |-> "mysql", host |-> "h1", database |-> "d1", username |-> "u1",
     password |-> "pw1", charset |-> t]

TemplateFiles ==
    {ValidFile([n \in UserNames |-> CfgTemplated(t)], NoSection) : t \in Templates}

\* ConfigManager constructed on a templated config file in some environment
InitTemplate ==
    /\ env \in {[environ |-> e, docs |-> <<>>] : e \in Environments}
    /\ disk \in TemplateFiles
    /\ databases = LoadConfig(disk).databases
    /\ security = LoadConfig(disk).security
    /\ MYSQL_DRIVERS = [d \in {"pymysql", "mysql.connector"} |-> TRUE]
    /\ connections = EmptyDict
    /\ files = {ExistingFile}
    /\ leaked = 0
    /\ clock = 0
    /\ held = NoHeld
    /\ crashed = FALSE
    /\ result = Idle
    /\ local = NoTable
    /\ handles = <<>>
    /\ api = NoApi
    /\ writers = NoWriters

NextTemplate ==
    \/ \E o \in SaveOutcomes : AddDatabaseConfig(TempName("mysql", 0), CfgSqlite, o)
    \/ \E n \in UserNames \cup {TempName("mysql", 0)}, o \in SaveOutcomes :
          RemoveDatabaseConfig(n, o)
    \/ ReloadConfig
    \/ Return
    \/ Restart

SpecTemplate == InitTemplate /\ [][NextTemplate]_vars

-----------------------------------------------------------------------------
(* two threads inside add_database_config / remove_database_config; neither *)
(* ConfigManager method takes a lock                                         *)

Threads == {1, 2}

\* the name each thread works on: the two calls are about different names
WriterName(t) == IF t = 1 THEN CHOOSE n \in UserNames : TRUE ELSE TempName("mysql", 0)

WriterConfigs == {CfgMysql, CfgSqlite}

NotCalled == [pc |-> "idle", op |-> "none", config |-> NoConfig, buffer |-> EmptyDict]

\* bytes written at offset 0 over a file another handle has written since this
\* handle's open truncated it: a document with fewer entries is shorter and leaves
\* the tail of the longer one behind it
Overlay(buffer, sec, f) ==
    IF f.state = "valid" /\ Cardinality(DOMAIN f.databases) > Cardinality(DOMAIN buffer)
    THEN TornFile
    ELSE ValidFile(buffer, sec)

\* a thread enters add_database_config(name, config) or remove_database_config(name)
WriterCall(t, op, config) ==
    /\ ~crashed
    /\ writers[t].pc = "idle"
    /\ writers' = [writers EXCEPT ![t] = [pc |-> "called", op |-> op, config |-> config,
                                           buffer |-> EmptyDict]]
    /\ UNCHANGED <<api, env, local, handles, databases, security, disk, MYSQL_DRIVERS,
                   connections, files, leaked, clock, held, crashed, result>>

\* self.config_data["databases"][name] = config, or del ...[name]; a remove of a
\* name that is not in the registry returns False without saving
WriterStore(t) ==
    /\ writers[t].pc = "called"
    /\ IF writers[t].op = "add"
       THEN /\ databases' = DictSet(databases, WriterName(t), writers[t].config)
            /\ writers' = [writers EXCEPT ![t].pc = "stored"]
       ELSE IF WriterName(t) \in DOMAIN databases
            THEN /\ databases' = DictDel(databases, WriterName(t))
                 /\ writers' = [writers EXCEPT ![t].pc = "stored"]
            ELSE /\ databases' = databases
                 /\ writers' = [writers EXCEPT ![t].pc = "done"]
    /\ UNCHANGED <<api, env, local, handles, security, disk, MYSQL_DRIVERS,
                   connections, files, leaked, clock, held, crashed, result>>

\* _save_config: open(config_path, 'w') truncates the config file
WriterOpen(t) ==
    /\ writers[t].pc = "stored"
    /\ disk' = TornFile
    /\ writers' = [writers EXCEPT ![t].pc = "opened"]
    /\ UNCHANGED <<api, env, local, handles, databases, security, MYSQL_DRIVERS,
                   connections, files, leaked, clock, held, crashed, result>>

\* json.dump(self.config_data, f): the registry as it is now goes to the buffer
\* of the file object
WriterDump(t) ==
    /\ writers[t].pc = "opened"
    /\ writers' = [writers EXCEPT ![t].pc = "dumped", ![t].buffer = databases]
    /\ UNCHANGED <<api, env, local, handles, databases, security, disk, MYSQL_DRIVERS,
                   connections, files, leaked, clock, held, crashed, result>>

\* the with block is left: the buffer is flushed and the file closed; the method
\* returns True
WriterClose(t) ==
    /\ writers[t].pc = "dumped"
    /\ disk' = Overlay(writers[t].buffer, security, disk)
    /\ writers' = [writers EXCEPT ![t].pc = "done"]
    /\ UNCHANGED <<api, env, local, handles, databases, security, MYSQL_DRIVERS,
                   connections, files, leaked, clock, held, crashed, result>>

\* ConfigManager constructed on a valid config file; no thread has called yet
InitWriters ==
    /\ env = NoEnv
    /\ disk \in {ValidFile(dbs, NoSection) :
                    dbs \in {EmptyDict} \cup
                            {[n \in {WriterName(t)} |-> CfgMysql] : t \in Threads}}
    /\ databases = LoadConfig(disk).databases
    /\ security = LoadConfig(disk).security
    /\ MYSQL_DRIVERS = [d \in {"pymysql", "mysql.connector"} |-> TRUE]
    /\ connections = EmptyDict
    /\ files = {ExistingFile}
    /\ leaked = 0
    /\ clock = 0
    /\ held = NoHeld
    /\ crashed = FALSE
    /\ result = Idle
    /\ local = NoTable
    /\ handles = <<>>
    /\ api = NoApi
    /\ writers = [t \in Threads |-> NotCalled]

NextWriters ==
    \E t \in Threads :
       \/ \E config \in WriterConfigs : WriterCall(t, "add", config)
       \/ WriterCall(t, "remove", NoConfig)
       \/ WriterStore(t)
       \/ WriterOpen(t)
       \/ WriterDump(t)
       \/ WriterClose(t)

SpecWriters == InitWriters /\ [][NextWriters]_vars

-----------------------------------------------------------------------------
(* acquisitions against hosts that may never answer: the query path *)
(* (get_connection) and the test path (test_connection), step by step *)

InTestConnection(state) ==
    /\ ~crashed
    /\ result.op = "test_acquire"
    /\ handles[Current].state = state

\* test_connection gets as far as a driver's connect call or probe
TestConnectReached(dbs, drivers, existing, name) ==
    LET config == get_database_config(dbs, name) IN
    /\ config # NoConfig
    /\ "host" \in DOMAIN config
    /\ test_connection(dbs, EmptyDict, drivers, existing, name, "ok").success

\* test_connection(database_name) is called
TestAcquire(name) ==
    /\ Ready
    /\ Len(handles) < MaxHandles
    /\ handles' = Append(handles, [name |-> name, state |-> "Connecting"])
    /\ result' = Called("test_acquire", name, <<>>, [handle |-> Len(handles) + 1])
    /\ UNCHANGED <<api, writers, env, local, databases, security, disk, MYSQL_DRIVERS,
                   connections, files, leaked, clock, held, crashed>>

\* the _test_*_connection helper connects, probes and closes, or fails
TestConnect(b) ==
    /\ InTestConnection("Connecting")
    /\ ConnectReturns("test", get_database_config(databases, result.name),
                      TestConnectReached(databases, MYSQL_DRIVERS, files, result.name), b)
    /\ \E t \in {test_connection(databases, connections, MYSQL_DRIVERS, files,
                                 result.name, b)} :
          handles' = [handles EXCEPT ![Current].state =
                         IF t.success THEN "Released" ELSE "ConnectFailed"]
    /\ UNCHANGED <<api, writers, env, local, databases, security, disk, MYSQL_DRIVERS,
                   connections, files, leaked, clock, held, crashed, result>>

\* test_connection returns its (success, message) pair
LeaveTestConnection ==
    /\ ~crashed
    /\ result.op = "test_acquire"
    /\ handles[Current].state \in {"Released", "ConnectFailed"}
    /\ result' = Idle
    /\ UNCHANGED <<api, writers, env, local, handles, databases, security, disk,
                   MYSQL_DRIVERS, connections, files, leaked, clock, held, crashed>>

AcquireFiles ==
    {ValidFile([n \in UserNames |-> config], NoSection) :
        config \in {CfgMysql, CfgSqlite, CfgMysqlNoHost, CfgMysqlSilent,
                    CfgPostgresqlSilent, CfgMongodbSilent}}

InitAcquire == Constructed(AcquireFiles)

NextAcquire ==
    \/ \E name \in UserNames : GetConnection(name)
    \/ EnterGetConnection
    \/ \E b \in ExecOutcomes : Connect(b)
    \/ Yield
    \/ Release
    \/ LeaveGetConnection
    \/ \E name \in UserNames : TestAcquire(name)
    \/ \E b \in TestOutcomes : TestConnect(b)
    \/ LeaveTestConnection

\* a call that can take a step takes one: the thread serving it is scheduled
SpecAcquire == InitAcquire /\ [][NextAcquire]_vars /\ WF_vars(NextAcquire)

-----------------------------------------------------------------------------
(* Properties *)

ConnectOps == {"connect", "connect_legacy", "connect_sqlite"}

\* the security policy in force forbids writes
WritesForbidden ==
    ~Truthy(DictGet(get_security_config(security), "allow_write_operations", PyFalse))

\* the blocked keywords of the security policy in force
PolicyKeywords ==
    LET kws == DictGet(get_security_config(security), "blocked_keywords", <<>>)
    IN {kws[i] : i \in 1..Len(kws)}

\* C1: with allow_write_operations false, execute_query on a query that contains
\* a blocked keyword returns success=false with an error naming a blocked keyword
\* that occurs in the query, and opens no connection and sends nothing to a driver
\* (specification SpecBroker).
C1_BlockedQueryRefusedBeforeIO ==
    (/\ result.op = "execute_query"
     /\ WritesForbidden
     /\ \E k \in PolicyKeywords : StrContains(StrUpper(result.arg), k))
        => /\ ~result.out.success
           /\ result.out.error = "blocked_keyword"
           /\ result.out.detail \in PolicyKeywords
           /\ StrContains(StrUpper(result.arg), result.out.detail)
           /\ result.out.opens = 0
           /\ ~result.out.sent

\* a DROP sent to an existing, connectable SQLite config was refused
C1_Witness ==
    /\ result.op = "execute_query"
    /\ result.name \in DOMAIN databases
    /\ databases[result.name] = CfgSqlite
    /\ result.out.error = "blocked_keyword"
    /\ result.out.detail = DROP
    /\ result.out.opens = 0

\* C2: when a connect-with-inline-credentials call ends because the test of its
\* temporary config failed or an exception followed the test, the config name is
\* absent from list_databases() (specification Spec).
C2_FailedTemporaryRemoved ==
    (result.op \in ConnectOps /\ result.out.status \in {"test_failed", "exception"})
        => result.name \notin DOMAIN list_databases(databases)

\* a connect call whose test failed has returned, its remove having failed to save
C2_Witness ==
    /\ result.op = "connect"
    /\ result.out.status = "test_failed"
    /\ ~crashed
    /\ disk.state = "valid"
    /\ result.name \in DOMAIN disk.databases

\* C3: a temporary config whose test succeeded is in the registry when the
\* connect call returns (specification Spec).
C3_SuccessfulTemporaryKept ==
    (result.op \in ConnectOps /\ result.out.status = "success")
        => result.name \in DOMAIN databases

\* C4: every connection that test_connection or execute_query opened is closed
\* when the call returns (specification SpecBroker).
C4_OpenedConnectionsClosed ==
    result.op \in {"test", "execute_query"} => result.out.opens = result.out.closes

\* C5: test_connection leaves the registry, the security section, the config
\* file and DatabaseManager.connections as they were, whatever the name and the
\* outcome; for a SQLite config whose file does not exist it fails with a message
\* that carries the file path (specification SpecBroker).
C5_TestConnectionChangesNothing ==
    /\ [][result'.op = "test" =>
            /\ databases' = databases
            /\ security' = security
            /\ disk' = disk
            /\ connections' = connections]_vars
    /\ [](\A n \in DOMAIN databases :
            (/\ result.op = "test"
             /\ result.name = n
             /\ validate_database_config(databases, n).valid
             /\ databases[n]["type"] = "sqlite"
             /\ databases[n]["file_path"] \notin files)
                => /\ ~result.out.success
                   /\ result.out.detail = <<databases[n]["file_path"]>>)

\* the test of a SQLite config whose file is missing has failed, the config kept
C5_Witness ==
    /\ result.op = "test"
    /\ result.name \in DOMAIN databases
    /\ databases[result.name] = CfgSqliteMissing
    /\ result.out.error = "sqlite_missing"

\* C6: a crash during a save that started with a valid config file leaves a valid
\* config file (ConfigManager writes no backup, so the config file is the only
\* candidate) (specification SpecStore).
C6_CrashLeavesValidFile ==
    [][(disk.state = "valid" /\ crashed') => disk'.state = "valid"]_vars

\* no key and no value of a view carries a credential
NoSecretIn(view) ==
    \A n \in DOMAIN view : \A k \in DOMAIN view[n] :
        k \notin SecretKeys /\ view[n][k] \notin SecretValues

\* C7: what list_databases() and get_temporary_configs() return holds no
\* password, token or api_key field and none of their values, in every registry
\* state that add, remove and reload reach (specification SpecStore).
C7_ListExposesNoSecret ==
    result.op \in {"list", "list_temp"} => NoSecretIn(result.out)

\* a registry entry with a password and a token has been listed
C7_Witness ==
    /\ result.op = "list"
    /\ \E n \in DOMAIN databases :
          /\ {"password", "token"} \subseteq DOMAIN databases[n]
          /\ n \in DOMAIN result.out

\* C8 as stated: get_database_config(name) right after add_database_config(name,
\* cfg) returns a config equal to cfg, for every cfg (specification SpecStore).
C8_RoundTripEveryConfig ==
    [][(/\ held.alias \in UserNames
        /\ held.from = "add"
        /\ result'.op = "get"
        /\ result'.name = held.alias) => result'.out = held.config]_vars

\* C8 amended: get_database_config(name) after add_database_config(name, cfg)
\* returns a config equal to cfg when cfg is enabled (enabled true or absent) and
\* none when cfg has enabled=false; assigning a field of the returned dict changes
\* no registry entry, so a later get returns the same (specification SpecStore).
C8_RoundTripEnabledConfig ==
    /\ [][(/\ held.alias \in UserNames
           /\ held.from = "add"
           /\ result'.op = "get"
           /\ result'.name = held.alias)
             => IF Truthy(DictGet(held.config, "enabled", PyTrue))
                THEN result'.out = held.config
                ELSE result'.out = NoConfig]_vars
    /\ [][(result'.op = "mutate" /\ held.from = "get")
             => databases' = databases]_vars

\* the dict a get returned after an add was changed, the registry entry was not
C8_Witness ==
    /\ result.op = "mutate"
    /\ held.from = "get"
    /\ \E n \in DOMAIN databases :
          /\ databases[n] # held.config
          /\ DictSet(databases[n], "host", "h2") = held.config

\* C9: get_database_config(name) returns none exactly when the name is absent or
\* its entry has enabled=false, and the stored config otherwise, an entry without
\* "enabled" counting as enabled (specification SpecStore).
C9_GetReturnsEnabledEntries ==
    result.op = "get" =>
        /\ result.out = NoConfig
              <=> \/ result.name \notin DOMAIN databases
                  \/ DictGet(databases[result.name], "enabled", "absent") = PyFalse
        /\ result.out # NoConfig => result.out = databases[result.name]

\* an entry without an "enabled" key was returned
C9_Witness ==
    /\ result.op = "get"
    /\ result.name \in DOMAIN databases
    /\ "enabled" \notin DOMAIN databases[result.name]
    /\ result.out = databases[result.name]

\* C10: applying _resolve_environment_variables a second time leaves the document
\* as the first application left it (specification SpecEnv).
C10_ResolveIdempotent ==
    Len(env.docs) = 3 => env.docs[3] = env.docs[2]

\* a driver_status text names every driver of the family as unavailable, with the
\* reason its import failed
NamesEveryDriver(detail) ==
    \A d \in {"pymysql", "mysql.connector"} :
        \E i \in DOMAIN detail :
            /\ detail[i].name = d
            /\ ~detail[i].available
            /\ detail[i].text = ImportErrorText(d)

\* C11: the test of a valid MySQL config uses pymysql when it is available,
\* mysql.connector when only that one is, and with neither it fails, before any
\* connection, with a message that lists pymysql and mysql.connector with the
\* reason each import failed; execute_query fails with the same list
\* (specification SpecBroker).
C11_PreferredDriverOrder ==
    /\ (/\ result.op = "test"
        /\ result.name \in DOMAIN databases
        /\ validate_database_config(databases, result.name).valid
        /\ databases[result.name]["type"] = "mysql")
          => /\ MYSQL_DRIVERS["pymysql"] => result.out.detail = <<"pymysql">>
             /\ (~MYSQL_DRIVERS["pymysql"] /\ MYSQL_DRIVERS["mysql.connector"])
                   => result.out.detail = <<"mysql.connector">>
             /\ (~MYSQL_DRIVERS["pymysql"] /\ ~MYSQL_DRIVERS["mysql.connector"])
                   => /\ ~result.out.success
                      /\ result.out.error = "driver_unavailable"
                      /\ result.out.opens = 0
                      /\ NamesEveryDriver(result.out.detail)
    /\ (result.op = "execute_query" /\ result.out.error = "driver_unavailable")
          => /\ ~result.out.success
             /\ result.out.opens = 0
             /\ NamesEveryDriver(result.out.detail)

\* with pymysql missing, a MySQL config was tested through mysql.connector
C11_Witness ==
    /\ result.op = "test"
    /\ ~MYSQL_DRIVERS["pymysql"]
    /\ MYSQL_DRIVERS["mysql.connector"]
    /\ result.out.success
    /\ result.out.detail = <<"mysql.connector">>

\* C12: test_connection and execute_query return a result and raise nothing, for
\* every name, config, query and backend outcome; the result of a failure has
\* success=false and an error (specification SpecBroker).
C12_NeverRaises ==
    result.op \in {"test", "execute_query"}
        => /\ ~result.out.raised
           /\ result.out.success <=> result.out.error = ""

\* the KeyError of a config without "type" came back as an error result, and so
\* did a failed connect
C12_Witness ==
    /\ result.op = "execute_query"
    /\ ~result.out.raised
    /\ ~result.out.success
    /\ result.out.error \in {"key_error", "connect_failed"}

\* the fields of config that its declared type requires and that are absent or
\* empty
MissingRequired(config) ==
    LET lacks(k) == ~Truthy(DictGet(config, k, PyNone))
    IN CASE config["type"] \in {"mysql", "postgresql"} ->
               {k \in {"host", "database", "password"} : lacks(k)}
                   \cup (IF lacks("username") /\ lacks("user") THEN {"username"} ELSE {})
         [] config["type"] = "mongodb" -> {k \in {"host", "database"} : lacks(k)}
         [] config["type"] = "sqlite" -> {k \in {"file_path"} : lacks(k)}
         [] OTHER -> {}

\* C15: test_connection on an enabled config that lacks a field its type requires
\* fails with a message that names one of the missing fields, and opens no
\* connection (specification SpecBroker).
C15_InvalidConfigNeverConnects ==
    (/\ result.op = "test"
     /\ result.name \in DOMAIN databases
     /\ get_database_config(databases, result.name) # NoConfig
     /\ Truthy(DictGet(databases[result.name], "type", PyNone))
     /\ MissingRequired(databases[result.name]) # {})
        => /\ ~result.out.success
           /\ result.out.error = "missing_field"
           /\ Len(result.out.detail) = 1
           /\ result.out.detail[1] \in MissingRequired(databases[result.name])
           /\ result.out.opens = 0
           /\ validate_database_config(databases, result.name).detail = result.out.detail

\* a MySQL config without a password was tested and refused for the password
C15_Witness ==
    /\ result.op = "test"
    /\ result.name \in DOMAIN databases
    /\ databases[result.name] = CfgMysqlNoPassword
    /\ result.out.error = "missing_field"
    /\ result.out.detail = <<"password">>
    /\ result.out.opens = 0

\* w occurs in s as a whole word: no word character before or after it
WholeWord(s, w) ==
    \E i \in 0..(Len(s) - Len(w)) :
        /\ SubSeq(s, i + 1, i + Len(w)) = w
        /\ i = 0 \/ s[i] = " "
        /\ i + Len(w) = Len(s) \/ s[i + Len(w) + 1] = " "

\* C16: the security check refuses a query only for a blocked keyword that occurs
\* in it as a whole word (specification SpecBroker).
C16_RefusedOnlyForWholeWord ==
    (result.op = "execute_query" /\ result.out.error = "blocked_keyword")
        => WholeWord(StrUpper(result.arg), result.out.detail)

\* C18: execute_query on a name that is absent or disabled returns the
\* config-not-found error, whatever the query (specification SpecBroker).
C18_NotFoundBeforeSecurityCheck ==
    (/\ result.op = "execute_query"
     /\ get_database_config(databases, result.name) = NoConfig)
        => result.out.error = "not_found"

\* the statements that read: the first word of the trimmed, uppercased text
ReadWords ==
    {SELECT, PRAGMA, <<"W","I","T","H">>, <<"S","H","O","W">>,
     <<"D","E","S","C","R","I","B","E">>}

IsRead(query) ==
    \E w \in ReadWords : StartsWith(StrUpper(StrStrip(query)), w)

\* C19: in a successful result of a SQL execute_query, the rows are empty exactly
\* when the statement is not a read, and the result carries row_count for a read
\* and affected_rows otherwise (specification SpecBroker).
C19_RowsEmptyIffNotRead ==
    (/\ result.op = "execute_query"
     /\ result.out.success
     /\ result.name \in DOMAIN databases
     /\ DictGet(databases[result.name], "type", PyNone)
            \in {"mysql", "postgresql", "sqlite"})
        => /\ result.out.rows = 0 <=> ~IsRead(result.arg)
           /\ result.out.kind = (IF IsRead(result.arg) THEN "row_count"
                                 ELSE "affected_rows")

\* C13: when cleanup_temporary_configs returns, no entry of the registry carries
\* the temporary flag, enabled or not, and every entry without the flag is the
\* entry it was (specification SpecStore).
C13_CleanupRemovesEveryTemporary ==
    [][(result'.op = "cleanup_temp" /\ ~crashed')
          => /\ \A n \in DOMAIN databases' :
                   ~Truthy(DictGet(databases'[n], "_is_temporary", PyFalse))
             /\ \A n \in DOMAIN databases :
                   ~Truthy(DictGet(databases[n], "_is_temporary", PyFalse))
                       => n \in DOMAIN databases' /\ databases'[n] = databases[n]]_vars

\* a cleanup removed a disabled temporary config, its save having failed, and
\* left a config that is not temporary
C13_Witness ==
    /\ result.op = "cleanup_temp"
    /\ \E i \in DOMAIN result.arg : result.arg[i] = TempName("mysql", 0)
    /\ TempName("mysql", 0) \notin DOMAIN databases
    /\ disk.state = "valid"
    /\ TempName("mysql", 0) \in DOMAIN disk.databases
    /\ \E n \in UserNames : n \in DOMAIN databases /\ databases[n] = CfgMysqlToken

\* the statement is a SELECT that carries no LIMIT clause of its own
SelectWithoutLimit(query) ==
    LET ws == Words(PreprocessSql(query))
    IN /\ ws # <<>>
       /\ StrUpper(ws[1]) = SELECT
       /\ \A i \in DOMAIN ws : StrUpper(ws[i]) # LIMIT

\* C14: a SELECT without a LIMIT clause, issued through execute_sql or
\* query_external_database with limit L, returns at most L rows, also when its
\* text holds the letters "limit" inside an identifier (specification SpecSql).
C14_SelectBoundedByLimit ==
    (/\ result.op \in {"execute_sql", "execute_sql_impl", "query_external"}
     /\ result.out.status = "success"
     /\ SelectWithoutLimit(result.arg.query))
        => result.out.returned <= result.arg.limit

\* C17: a call of execute_sql with a statement that is not a SELECT is rejected
\* and leaves the local database as it was (specification SpecSql).
C17_LocalToolOnlySelects ==
    [][(/\ result'.op \in {"execute_sql", "execute_sql_impl"}
        /\ ~StartsWith(StrUpper(PreprocessSql(result'.arg.query)), SELECT))
          => /\ result'.out.status = "error"
             /\ local' = local]_vars

\* the steps of one acquisition
AcquisitionSteps ==
    {<<"Requested", "Connecting">>, <<"Connecting", "Connected">>,
     <<"Connecting", "ConnectFailed">>, <<"Connected", "InUse">>,
     <<"InUse", "Released">>}

\* C20: every get_connection call works on a connection of its own, which goes
\* Requested, Connecting, then Connected, InUse, Released or ConnectFailed, and
\* never leaves Released or ConnectFailed; DatabaseManager.connections is empty
\* in every state, and between calls no connection is open (specification
\* SpecConnection).
C20_NoConnectionReuse ==
    /\ [](connections = EmptyDict)
    /\ [](result.op # "get_connection"
            => /\ leaked = 0
               /\ \A i \in DOMAIN handles :
                     handles[i].state \in {"Released", "ConnectFailed"})
    /\ [][/\ \A i \in DOMAIN handles :
                /\ i \in DOMAIN handles'
                /\ handles'[i].name = handles[i].name
                /\ \/ handles'[i].state = handles[i].state
                   \/ <<handles[i].state, handles'[i].state>> \in AcquisitionSteps
          /\ \A i \in DOMAIN handles' \ DOMAIN handles :
                /\ handles'[i].state = "Requested"
                /\ result'.out.handle = i]_vars

\* a second connection to the same config is in use after the first was released
C20_Witness ==
    /\ Len(handles) = 2
    /\ handles[1].name = handles[2].name
    /\ handles[1].state = "Released"
    /\ handles[2].state = "InUse"
    /\ connections = EmptyDict

\* a call of add or remove, of either manager, came back after its save raised
DatabaseSaveFailed ==
    /\ result = Idle
    /\ result'.op \in {"add", "remove"}
    /\ result'.op = "remove" => result'.name \in DOMAIN databases
    /\ result'.out = FALSE
    /\ ~crashed'

ApiSaveFailed ==
    /\ result = Idle
    /\ result'.op \in {"add_api", "remove_api"}
    /\ result'.op = "remove_api" => result'.name \in DOMAIN api.apis
    /\ result'.arg \in {"open_error", "write_error"}

\* C21: when a save fails (the process surviving) and a valid config file existed
\* before it, the config file holds exactly its previous content afterwards and
\* no .json.bak is left, for ConfigManager as for APIConfigManager
\* (specification SpecApi).
C21_FailedSaveRestoresPrevious ==
    [][/\ (DatabaseSaveFailed /\ disk.state = "valid") => disk' = disk
       /\ (ApiSaveFailed /\ api.config.state = "valid") =>
              (api'.config = api.config /\ api'.bak = ApiAbsent)]_vars

\* the characters a variable name is made of
NameChars == {"A", "B", "x"}

\* the index of the "}" that closes a well-formed ${NAME} starting at i, or 0
WellFormedEnd(s, i) ==
    IF i + 1 <= Len(s) /\ s[i] = "$" /\ s[i + 1] = "{"
    THEN LET ends == {j \in (i + 3)..Len(s) :
                         /\ s[j] = "}"
                         /\ \A k \in (i + 2)..(j - 1) : s[k] \in NameChars}
         IN IF ends = {} THEN 0 ELSE CHOOSE j \in ends : \A k \in ends : j <= k
    ELSE 0

\* s from position i on, every well-formed ${NAME} replaced by the value of NAME
\* (empty when unset) and every other character kept
RECURSIVE Substituted(_, _, _)
Substituted(s, i, environ) ==
    IF i > Len(s) THEN <<>>
    ELSE LET j == WellFormedEnd(s, i) IN
         IF j > 0
         THEN LET name == SubSeq(s, i + 2, j - 1) IN
              (IF name \in DOMAIN environ THEN environ[name] ELSE <<>>)
                  \o Substituted(s, j + 1, environ)
         ELSE <<s[i]>> \o Substituted(s, i + 1, environ)

\* no value of the environment holds a "$"
PlainEnvironment(environ) ==
    \A n \in DOMAIN environ : \A k \in 1..Len(environ[n]) : environ[n][k] # "$"

\* C22: with environment values that hold no "$", one application of
\* _resolve_environment_variables replaces every well-formed ${NAME} by the value
\* of NAME (empty when unset) and leaves every other character, an unterminated
\* "${" included, as it was (specification SpecEnv).
C22_OnlyWellFormedTokensSubstituted ==
    (Len(env.docs) >= 2 /\ PlainEnvironment(env.environ)) =>
        env.docs[2][1] = Substituted(env.docs[1][1], 1, env.environ)

\* C23: reload_config on a config file that is absent, unreadable or not valid
\* JSON does not raise and leaves the empty store: no database and the (empty)
\* top-level sections (specification SpecStore).
C23_LoadFailsSoft ==
    (result.op = "reload" /\ disk.state # "valid") =>
        /\ ~result.out.raised
        /\ databases = EmptyDict
        /\ security = Section(EmptyDict)

\* a reload found the config file torn or unreadable and came back
C23_Witness ==
    /\ result.op = "reload"
    /\ disk.state \in {"torn", "unreadable"}
    /\ ~result.out.raised
    /\ databases = EmptyDict

\* C24: execute_query on a query that is empty after trimming returns
\* success=false, opens no connection and sends nothing to a driver
\* (specification SpecBroker).
C24_EmptyQueryRejected ==
    (result.op = "execute_query" /\ StrStrip(result.arg) = <<>>)
        => /\ ~result.out.success
           /\ result.out.opens = 0
           /\ ~result.out.sent

\* the statements that write
WriteWords == {DROP, DELETE, UPDATE, INSERT, ALTER, CREATE, TRUNCATE}

\* the first word of the uppercased text is a write keyword
IsWrite(query) ==
    /\ Words(StrUpper(query)) # <<>>
    /\ Words(StrUpper(query))[1] \in WriteWords

\* C27: with allow_write_operations false or unset, whatever the security
\* section holds, execute_query on a write statement sends nothing to a driver
\* and commits nothing (specification SpecBroker).
C27_ReadOnlyByDefault ==
    (/\ result.op = "execute_query"
     /\ WritesForbidden
     /\ IsWrite(result.arg))
        => /\ ~result.out.sent
           /\ ~result.out.committed

\* C30: when add_database_config or remove_database_config returns False because
\* the save failed, the in-memory registry is what it was before the call
\* (specification SpecStore).
C30_FailedSaveLeavesRegistry ==
    [][DatabaseSaveFailed => databases' = databases]_vars

\* C28: a connect call with inline credentials creates its temporary config
\* under a name no config has yet, and leaves every config that was in the
\* registry before it in place and as it was, whether the call succeeds or fails
\* (specification Spec).
C28_ConnectCallsDoNotInterfere ==
    [][(result = Idle /\ result'.op \in ConnectOps /\ result'.name # NoName) =>
           /\ result'.name \notin DOMAIN databases
           /\ \A n \in DOMAIN databases :
                 n \in DOMAIN databases' /\ databases'[n] = databases[n]]_vars

\* C29: a save leaves every config of the file that the call was not about as
\* the file had it, ${NAME} placeholders included: an entry that is in the config
\* file before and after an add or a remove of another name has the same value
\* (specification SpecTemplate).
C29_SaveKeepsPlaceholders ==
    [][(/\ result = Idle
        /\ result'.op \in {"add", "remove"}
        /\ disk.state = "valid"
        /\ disk'.state = "valid") =>
           \A n \in (DOMAIN disk.databases \cap DOMAIN disk'.databases) \ {result'.name} :
              disk'.databases[n] = disk.databases[n]]_vars

\* C25: when two threads have each made one add or remove call, on different
\* names, and both calls have returned, the registry holds both changes and the
\* config file is the complete document of that registry
\* (specification SpecWriters).
C25_ConcurrentWritersSerialized ==
    (\A t \in Threads : writers[t].pc = "done") =>
        /\ \A t \in Threads :
              IF writers[t].op = "add"
              THEN /\ WriterName(t) \in DOMAIN databases
                   /\ databases[WriterName(t)] = writers[t].config
              ELSE WriterName(t) \notin DOMAIN databases
        /\ disk = ValidFile(databases, security)

\* C26: every acquisition terminates: a call of get_connection or of
\* test_connection that has started comes back, whether or not the host answers
\* (specification SpecAcquire).
C26_EveryAcquisitionTerminates ==
    (result.op \in {"get_connection", "test_acquire"}) ~> (result = Idle)

====
